---- MODULE Spec2Model ----
(***************************************************************************)
(* A model of the CheckLogs Go SDK client (src/src/functions.go): the      *)
(* validator, the retry queue, the statistics counters, sendLog and flush, *)
(* run by several goroutines against one CheckLogsClient; of the           *)
(* CheckLogsLogger built on that client; and of the Logger of              *)
(* src/CheckLogs.go, which owns its retry queue.                           *)
(*                                                                         *)
(* Strings whose content the code never reads (message, source) are        *)
(* represented by their byte length; a context value by a tag and the      *)
(* byte length of its JSON encoding (0: encoding/json cannot encode it).   *)
(***************************************************************************)
EXTENDS Integers, Sequences, FiniteSets, Bags, TLC

VARIABLES
    queue,            \* retryQueue.queue
    spare,            \* the elements of retryQueue.queue's backing array beyond its length
    totalLogs,        \* statsManager.totalLogs
    totalErrors,      \* statsManager.totalErrors
    lastLog,          \* statsManager.lastLog (0: the zero time)
    validatePayload,  \* CheckLogsClient.options.ValidatePayload
    th,               \* per goroutine: the frame of the call it is running or ran last
    lostEntry,        \* history: a Flush's Clear discarded an entry no Flush holds
    hist,             \* history, kept where it is on: the entries ever added to the retry
                      \* queue and the entries the endpoint has accepted
    loggers,          \* the CheckLogsLogger instances on the client, in order of creation
                      \* (with, as history, the context each was created with)
    heap,             \* the context maps the loggers refer to (a map is a reference in Go)
    simple,           \* the Logger instances of CheckLogs.go, in order of creation
    mu,               \* who holds retryQueue.mutex and statsManager.mutex
    timers,           \* the Timer values created, in order of creation
    backoff           \* the last call of exponentialBackoff: its arguments, its result
                      \* and the result for the attempt before

vars == <<queue, spare, totalLogs, totalErrors, lastLog, validatePayload, th, lostEntry, hist,
          loggers, heap, simple, mu, timers, backoff>>

\* the state of the loggers, of the locks, of the timers and of the backoff
lvars == <<loggers, heap, simple, mu, timers, backoff>>

----------------------------------------------------------------------------
(* Bounds of the model *)

\* sendLog calls that pass validation, per behaviour of the concurrent
\* specification (caps totalLogs)
MaxLogs == 3

\* the same cap for the sequential specification
MaxSeqLogs == 2

\* the same cap for the flush specification
MaxFlushLogs == 4

\* the same cap for the logger specification
MaxLoggerLogs == 2

\* CheckLogsLogger instances per behaviour of the logger specification
MaxLogLoggers == 2

\* sendLog calls that pass validation, per behaviour of the child specification
MaxChildLogs == 1

\* sendLog calls that pass validation, per behaviour of the concurrent
\* logger specification
MaxConcLoggerLogs == 2

\* sendLog calls that pass validation per behaviour of the timer
\* specification
MaxTimerLogs == 2

\* Timer values per behaviour of the timer specification
MaxTimers == 1

\* sendLog calls that pass validation per behaviour of the lock
\* specification
MaxLockLogs == 2

\* sendLog calls that pass validation per behaviour of the options
\* specification
MaxOptionLogs == 2

\* sendLog calls that pass validation per behaviour of the reading
\* specification
MaxReadLogs == 2

\* sendLog calls that pass validation per behaviour of the flush-round
\* specification
MaxRoundLogs == 4

\* entries in the retry queue of the Logger of the flush-round specification
MaxRoundQueue == 2

\* in the delivery specification: totalLogs from which on no Log is called
MaxLiveLogs == 2

\* in the delivery specification: totalErrors from which on every send
\* succeeds
MaxLiveErrs == 1

\* CheckLogsLogger instances from which on no goroutine starts a createChild
\* in the one-call specification
MaxCallLoggers == 2

\* CheckLogsLogger instances from which on no goroutine starts a createChild
\* in the concurrent logger specification (two that have started make it
\* the root and two children)
MaxConcLoggers == 2

\* entries in the retry queue of a Logger of CheckLogs.go
MaxSimpleQueue == 1

\* in the concurrent Logger specification: entries waiting for a resend (in
\* the queue or held by a flush) from which on no goroutine starts a log call
MaxSharedQueue == 1

\* Logger instances of CheckLogs.go per behaviour: the root, a child and a
\* grandchild or a second child
MaxSimpleLoggers == 3

\* CheckLogsLogger instances per behaviour of the child specification: the
\* root, a child and a grandchild or a second child
MaxLoggers == 3

(* Constants of the program *)

MaxMessageLen == 1024
MaxSourceLen == 100
MaxContextLen == 5000

\* the goroutines of the concurrent specification
Threads == {"g1", "g2"}

ValidLevels == {"debug", "info", "warning", "error", "critical"}

----------------------------------------------------------------------------
(* Errors *)

Nil == [type |-> "nil", field |-> "", message |-> "", status |-> 0]

ValidationError(f, m) ==
    [type |-> "ValidationError", field |-> f, message |-> m, status |-> 0]

NetworkError(m) ==
    [type |-> "NetworkError", field |-> "", message |-> m, status |-> 0]

APIError(s) ==
    [type |-> "APIError", field |-> "", message |-> "", status |-> s]

\* fmt.Errorf("failed to marshal log data: %w", err)
MarshalError ==
    [type |-> "error", field |-> "", message |-> "failed to marshal log data", status |-> 0]

\* no sendLog has returned in this frame yet
NoErr == [type |-> "none", field |-> "", message |-> "", status |-> 0]

----------------------------------------------------------------------------
(* Log entries *)

EmptyMap == [k \in {} |-> 0]

NilContext == [isNil |-> TRUE, m |-> EmptyMap]

Ctx(m) == [isNil |-> FALSE, m |-> m]

Val(tag, n) == [v |-> tag, bytes |-> n]

Entry(msg, lvl, src, c, ts) ==
    [message |-> msg, level |-> lvl, source |-> src, context |-> c, timestamp |-> ts]

NoData == Entry(0, "", 0, NilContext, 0)

RECURSIVE SumBytes(_, _)
SumBytes(m, keys) ==
    IF keys = {} THEN 0
    ELSE LET k == CHOOSE x \in keys : TRUE
         IN  Len(k) + 2 + 1 + m[k].bytes + SumBytes(m, keys \ {k})

\* json.Marshal of a context map succeeds
Encodable(m) == \A k \in DOMAIN m : m[k].bytes > 0

\* len(contextBytes) after contextBytes, _ := json.Marshal(data.Context)
ContextBytes(m) ==
    IF ~Encodable(m) THEN 0
    ELSE IF DOMAIN m = {} THEN 2
    ELSE 2 + SumBytes(m, DOMAIN m) + (Cardinality(DOMAIN m) - 1)

\* json.Marshal(data) succeeds
Marshalable(d) == d.context.isNil \/ Encodable(d.context.m)

----------------------------------------------------------------------------
(* The validator *)

\* validateLogData without the message length check
validateLogData_NoLength(vp, d) ==
    IF ~vp THEN Nil
    ELSE IF d.message = 0
    THEN ValidationError("message", "message is required")
    ELSE IF d.source # 0 /\ d.source > MaxSourceLen
    THEN ValidationError("source", "source must not exceed 100 characters")
    ELSE IF ~d.context.isNil /\ ContextBytes(d.context.m) > MaxContextLen
    THEN ValidationError("context", "context must not exceed 5000 characters when serialized")
    ELSE IF d.level \notin ValidLevels
    THEN ValidationError("level", "invalid log level")
    ELSE Nil

\* validateLogData with the level checked before the context
validateLogData_LevelFirst(vp, d) ==
    IF ~vp THEN Nil
    ELSE IF d.message = 0
    THEN ValidationError("message", "message is required")
    ELSE IF d.message > MaxMessageLen
    THEN ValidationError("message", "message must not exceed 1024 characters")
    ELSE IF d.source # 0 /\ d.source > MaxSourceLen
    THEN ValidationError("source", "source must not exceed 100 characters")
    ELSE IF d.level \notin ValidLevels
    THEN ValidationError("level", "invalid log level")
    ELSE IF ~d.context.isNil /\ ContextBytes(d.context.m) > MaxContextLen
    THEN ValidationError("context", "context must not exceed 5000 characters when serialized")
    ELSE Nil

\* validateLogData that ignores options.ValidatePayload
validateLogData_Always(vp, d) ==
    IF d.message = 0
    THEN ValidationError("message", "message is required")
    ELSE IF d.message > MaxMessageLen
    THEN ValidationError("message", "message must not exceed 1024 characters")
    ELSE IF d.source # 0 /\ d.source > MaxSourceLen
    THEN ValidationError("source", "source must not exceed 100 characters")
    ELSE IF ~d.context.isNil /\ ContextBytes(d.context.m) > MaxContextLen
    THEN ValidationError("context", "context must not exceed 5000 characters when serialized")
    ELSE IF d.level \notin ValidLevels
    THEN ValidationError("level", "invalid log level")
    ELSE Nil

validateLogData(vp, d) ==
    IF ~vp THEN Nil
    ELSE IF d.message = 0
    THEN ValidationError("message", "message is required")
    ELSE IF d.message > MaxMessageLen
    THEN ValidationError("message", "message must not exceed 1024 characters")
    ELSE IF d.source # 0 /\ d.source > MaxSourceLen
    THEN ValidationError("source", "source must not exceed 100 characters")
    ELSE IF ~d.context.isNil /\ ContextBytes(d.context.m) > MaxContextLen
    THEN ValidationError("context", "context must not exceed 5000 characters when serialized")
    ELSE IF d.level \notin ValidLevels
    THEN ValidationError("level", "invalid log level")
    ELSE Nil

\* Retriable without the rate-limit status
Retriable_No429(status) == status >= 500

\* resp.StatusCode >= 500 || resp.StatusCode == 429
Retriable(status) == status >= 500 \/ status = 429

----------------------------------------------------------------------------
(* Locks: a sync.RWMutex is held by a set of holders, each reading or      *)
(* writing. Every Lock and RLock of the code is released by a deferred     *)
(* Unlock before the method returns, inside the step that took it, except  *)
(* in the methods modelled in several steps (GetStats, Size,               *)
(* GetRetryQueueSize), which hold their read lock from one step to another.*)

NoLocks == [rq |-> {}, stats |-> {}]

\* mutex.Lock() on lock l can proceed
CanLock(l) == mu[l] = {}

\* mutex.RLock() on lock l can proceed
CanRLock(l) == \A h \in mu[l] : h.mode = "r"

\* the locks goroutine t holds
HeldBy(t) == {l \in DOMAIN mu : \E h \in mu[l] : h.who = t}

\* the holders of a lock once goroutine t has unlocked it
Unlocked(holders, t) == {h \in holders : h.who # t}

----------------------------------------------------------------------------
(* Frames *)

NoResp == [kind |-> "none", status |-> 0]

\* the counters a flush began with (zero in the frame of any other call)
NoBase == [totalLogs |-> 0, totalErrors |-> 0]

\* exponentialBackoff has not been called
NoBackoff == [attempt |-> 0, baseDelay |-> {}, delay |-> {}, prev |-> {}]

\* no history of the entries is kept
\* added: how often each entry was added to the retry queue; resent: how
\* often a resend of a flush delivered it; overlap: a flush began while
\* another was running; raced: an entry was added while a flush was running
NoHist ==
    [on |-> FALSE, enqueued |-> {}, delivered |-> {}, added |-> EmptyBag, resent |-> EmptyBag,
     overlap |-> FALSE, raced |-> FALSE]

\* some goroutine is inside a flush of the client
FlushRunning == \E u \in DOMAIN th : th[u].op = "Flush" /\ th[u].pc # "idle"

\* what the sendLog of a frame has done so far: calls of IncrementLogs,
\* IncrementErrors, retryQueue.Add and httpClient.Do
ZeroEff == [logs |-> 0, errs |-> 0, adds |-> 0, nets |-> 0]

\* the queue and the counters as they were when the sendLog of a frame began
NoPre == [queue |-> <<>>, totalLogs |-> 0, totalErrors |-> 0]

\* the frame of a goroutine that has called nothing
\* the arguments of a call on a logger: level, message, and the context map
\* (CheckLogsLogger.log) or the context maps (Logger.log) of the call site
NoArg == [level |-> "", message |-> 0, context |-> NilContext, contexts |-> <<>>]

\* the Stats value GetStats returns; ErrorRate is the fraction num/den
NoStats == [totalLogs |-> 0, lastLog |-> 0, errorRate |-> [num |-> 0, den |-> 1]]

\* timer: the Timer the call is made on (0: none)
\* snapshot: the elements of the slice flush ranges over; shared: that slice
\* has the backing array of the retry queue; base: the counters when the
\* flush began
\* lg: the logger the call is made on (0: the client itself); arg: the
\* arguments of the call; echo: the console lines the call has written for
\* its entry; diag: the "[CHECKLOGS ERROR]" lines it has written
Idle0 ==
    [pc |-> "idle", op |-> "none", ctx |-> "background", data |-> NoData,
     resp |-> NoResp, err |-> NoErr, eff |-> ZeroEff, pre |-> NoPre,
     snapshot |-> <<>>, idx |-> 0, success |-> TRUE, errs |-> <<>>, count |-> 0,
     lg |-> 0, arg |-> NoArg, echo |-> 0, diag |-> 0, stats |-> NoStats, timer |-> 0,
     shared |-> FALSE, base |-> NoBase]

\* the frame of a call of o with context c
Frame(o, c) == [Idle0 EXCEPT !.op = o, !.ctx = c]

\* Return with flush's success overwritten by each resend
Return_LastOnly(r, e) ==
    IF r.op = "Flush"
    THEN LET r1 == [r EXCEPT !.err = e,
                             !.success = (e = Nil),
                             !.errs = Append(r.errs, [d |-> r.data, e |-> e])]
         IN  IF r.idx < Len(r.snapshot)
             THEN [r1 EXCEPT !.pc = "send", !.idx = r.idx + 1]
             ELSE [r1 EXCEPT !.pc = "idle", !.snapshot = <<>>, !.idx = 0]
    ELSE [r EXCEPT !.pc = "idle", !.err = e]

\* Return with flush's loop staying on an entry until its resend succeeds
Return_UntilSent(r, e) ==
    IF r.op = "Flush"
    THEN LET r1 == [r EXCEPT !.err = e,
                             !.success = r.success /\ e = Nil,
                             !.errs = Append(r.errs, [d |-> r.data, e |-> e])]
         IN  IF e # Nil
             THEN [r1 EXCEPT !.pc = "send"]
             ELSE IF r.idx < Len(r.snapshot)
             THEN [r1 EXCEPT !.pc = "send", !.idx = r.idx + 1]
             ELSE [r1 EXCEPT !.pc = "idle", !.snapshot = <<>>, !.idx = 0]
    ELSE [r EXCEPT !.pc = "idle", !.err = e]

\* sendLog returns e: Log returns it; flush's loop moves to the next entry
Return(r, e) ==
    IF r.op = "Flush"
    THEN LET r1 == [r EXCEPT !.err = e,
                             !.success = r.success /\ e = Nil,
                             !.errs = Append(r.errs, [d |-> r.data, e |-> e])]
         IN  IF r.idx < Len(r.snapshot)
             THEN [r1 EXCEPT !.pc = "send", !.idx = r.idx + 1]
             ELSE [r1 EXCEPT !.pc = "idle", !.snapshot = <<>>, !.idx = 0]
    ELSE [r EXCEPT !.pc = "idle", !.err = e]

----------------------------------------------------------------------------
(* Slices. A slice is its elements and the rest of its backing array; two  *)
(* slices on one array see each other's writes until append moves one of   *)
(* them to a new array.                                                    *)

\* GoAppend that puts the new element in front
GoAppend_Front(q, sp, d) ==
    [queue |-> <<d>> \o q,
     spare |-> IF sp # <<>> THEN Tail(sp) ELSE [i \in 1..(Len(q) - 1) |-> NoData],
     moved |-> sp = <<>>]

\* append(s, d), s having the elements q and sp behind them in its array: in
\* place while there is room, else into a new array of twice the capacity
\* (the runtime's growth for a short slice), the rest of it zero
GoAppend(q, sp, d) ==
    IF sp # <<>>
    THEN [queue |-> Append(q, d), spare |-> Tail(sp), moved |-> FALSE]
    ELSE [queue |-> Append(q, d),
          spare |-> [i \in 1..(Len(q) - 1) |-> NoData],
          moved |-> TRUE]

\* a slice that is the queue itself, not a copy of it
MakeCopy_Alias(q) == [elems |-> q, shared |-> TRUE]

\* result := make([]LogData, len(q)); copy(result, q): the elements of q in
\* an array of their own
MakeCopy(q) == [elems |-> q, shared |-> FALSE]

\* frame r ranges over a slice taken from the queue of Logger l of
\* CheckLogs.go (0: from the client's retryQueue)
TakenFrom(r, l) ==
    IF l = 0 THEN r.op = "Flush" ELSE r.op = "FlushRetryQueue" /\ r.lg = l

\* the slice flush ranges over in frame r, as the goroutine reads it
Snapshot(r) ==
    IF r.shared
    THEN LET a == IF r.op = "FlushRetryQueue"
                  THEN simple[r.lg].retryQueue \o simple[r.lg].spare
                  ELSE queue \o spare
         IN  SubSeq(a, 1, Len(r.snapshot))
    ELSE r.snapshot

\* the frames once append has moved the queue of l to a new array: a slice
\* that shared the old array keeps it, and is alone on it
Moved(l) ==
    [u \in DOMAIN th |->
        IF th[u].shared /\ TakenFrom(th[u], l)
        THEN [th[u] EXCEPT !.snapshot = Snapshot(th[u]), !.shared = FALSE]
        ELSE th[u]]

----------------------------------------------------------------------------
(* sendLog *)

\* SendBegin that stamps every entry with the current time
SendBegin_Restamp(t, U, r, d0) ==
    \E now \in U.clock, now2 \in U.clock :
        LET d == [d0 EXCEPT !.timestamp = now]
            v == validateLogData(validatePayload, d)
            r0 == [r EXCEPT !.data = d, !.resp = NoResp, !.err = NoErr, !.eff = ZeroEff,
                            !.pre = IF U.pre
                                    THEN [queue |-> queue, totalLogs |-> totalLogs,
                                          totalErrors |-> totalErrors]
                                    ELSE NoPre]
        IN  IF v # Nil
            THEN /\ th' = [th EXCEPT ![t] = Return(r0, v)]
                 /\ UNCHANGED <<totalLogs, lastLog>>
            ELSE /\ CanLock("stats")
                 /\ totalLogs' = totalLogs + 1
                 /\ lastLog' = now2
                 /\ th' = [th EXCEPT ![t] = [r0 EXCEPT !.pc = "do", !.eff.logs = 1]]

\* sendLog up to c.stats.IncrementLogs(): default timestamp, validation, count
SendBegin(t, U, r, d0) ==
    \E now \in U.clock, now2 \in U.clock :
        LET d == IF d0.timestamp = 0 THEN [d0 EXCEPT !.timestamp = now] ELSE d0
            v == validateLogData(validatePayload, d)
            r0 == [r EXCEPT !.data = d, !.resp = NoResp, !.err = NoErr, !.eff = ZeroEff,
                            !.pre = IF U.pre
                                    THEN [queue |-> queue, totalLogs |-> totalLogs,
                                          totalErrors |-> totalErrors]
                                    ELSE NoPre]
        IN  IF v # Nil
            THEN /\ th' = [th EXCEPT ![t] = Return(r0, v)]
                 /\ UNCHANGED <<totalLogs, lastLog>>
            ELSE /\ CanLock("stats")
                 /\ totalLogs' = totalLogs + 1
                 /\ lastLog' = now2
                 /\ th' = [th EXCEPT ![t] = [r0 EXCEPT !.pc = "do", !.eff.logs = 1]]

\* DoOutcomes where a cancelled context does not stop the request
DoOutcomes_NoCancel(U, c) ==
    (IF U.neterr THEN {[kind |-> "error", status |-> 0]} ELSE {})
    \cup {[kind |-> "response", status |-> s] : s \in U.statuses}

\* what c.httpClient.Do(req) answers with
DoOutcomes(U, c) ==
    IF c = "cancelled" THEN {[kind |-> "error", status |-> 0]}
    ELSE (IF U.neterr THEN {[kind |-> "error", status |-> 0]} ELSE {})
         \cup {[kind |-> "response", status |-> s] : s \in U.statuses}

\* SendDo where a delivered entry is also dropped from the retry queue
SendDo_Ack(t, U) ==
    LET r == th[t] IN
    /\ r.pc = "do"
    /\ Marshalable(r.data)
    /\ r.ctx # "nil"
    /\ \E o \in DoOutcomes(U, r.ctx) :
           LET r1 == [r EXCEPT !.resp = o, !.eff.nets = 1] IN
           IF o.kind = "error"
           THEN /\ th' = [th EXCEPT ![t] =
                       [r1 EXCEPT !.pc = "incErr", !.err = NetworkError("request failed")]]
                /\ queue' = queue
           ELSE IF o.status >= 400
           THEN /\ th' = [th EXCEPT ![t] =
                       [r1 EXCEPT !.pc = "incErr", !.err = APIError(o.status)]]
                /\ queue' = queue
           ELSE /\ th' = [th EXCEPT ![t] = Return(r1, Nil)]
                /\ queue' = SelectSeq(queue, LAMBDA e : e # r.data)
    /\ UNCHANGED <<spare, totalLogs, totalErrors, lastLog, validatePayload, lostEntry, hist>>
    /\ UNCHANGED lvars

\* SendDo that takes every status from 300 on for a failure
SendDo_From300(t, U) ==
    LET r == th[t] IN
    /\ r.pc = "do"
    /\ IF ~Marshalable(r.data)
       THEN th' = [th EXCEPT ![t] = [r EXCEPT !.pc = "incErr", !.err = MarshalError]]
       ELSE IF r.ctx = "nil"
       THEN th' = [th EXCEPT ![t] =
                [r EXCEPT !.pc = "incErr", !.err = NetworkError("failed to create request")]]
       ELSE \E o \in DoOutcomes(U, r.ctx) :
                LET r1 == [r EXCEPT !.resp = o, !.eff.nets = 1] IN
                IF o.kind = "error"
                THEN th' = [th EXCEPT ![t] =
                         [r1 EXCEPT !.pc = "incErr", !.err = NetworkError("request failed")]]
                ELSE IF o.status >= 300
                THEN th' = [th EXCEPT ![t] =
                         [r1 EXCEPT !.pc = "incErr", !.err = APIError(o.status)]]
                ELSE th' = [th EXCEPT ![t] = Return(r1, Nil)]
    /\ UNCHANGED <<queue, spare, totalLogs, totalErrors, lastLog, validatePayload, lostEntry, hist>>
    /\ UNCHANGED lvars

\* json.Marshal, http.NewRequestWithContext and c.httpClient.Do
SendDo(t, U) ==
    LET r == th[t] IN
    /\ r.pc = "do"
    /\ IF ~Marshalable(r.data)
       THEN th' = [th EXCEPT ![t] = [r EXCEPT !.pc = "incErr", !.err = MarshalError]]
       ELSE IF r.ctx = "nil"
       THEN th' = [th EXCEPT ![t] =
                [r EXCEPT !.pc = "incErr", !.err = NetworkError("failed to create request")]]
       ELSE \E o \in DoOutcomes(U, r.ctx) :
                LET r1 == [r EXCEPT !.resp = o, !.eff.nets = 1] IN
                IF o.kind = "error"
                THEN th' = [th EXCEPT ![t] =
                         [r1 EXCEPT !.pc = "incErr", !.err = NetworkError("request failed")]]
                ELSE IF o.status >= 400
                THEN th' = [th EXCEPT ![t] =
                         [r1 EXCEPT !.pc = "incErr", !.err = APIError(o.status)]]
                ELSE th' = [th EXCEPT ![t] = Return(r1, Nil)]
    /\ hist' = IF hist.on /\ th'[t].err = Nil
               THEN [hist EXCEPT !.delivered = @ \cup {r.data},
                                 !.resent = IF r.op = "Flush"
                                            THEN @ (+) SetToBag({r.data})
                                            ELSE @]
               ELSE hist
    /\ UNCHANGED <<queue, spare, totalLogs, totalErrors, lastLog, validatePayload, lostEntry>>
    /\ UNCHANGED lvars

\* the failed send is added to the retry queue
Requeued(r) ==
    \/ r.resp.kind = "error"
    \/ r.resp.kind = "response" /\ Retriable(r.resp.status)

\* SendIncErr that counts only the failures it requeues
SendIncErr_SkipTerminal(t) ==
    LET r == th[t]
        r1 == [r EXCEPT !.eff.errs = r.eff.errs + 1]
    IN
    /\ r.pc = "incErr"
    /\ CanLock("stats")
    /\ IF Requeued(r)
       THEN /\ totalErrors' = totalErrors + 1
            /\ th' = [th EXCEPT ![t] = [r1 EXCEPT !.pc = "add"]]
       ELSE /\ totalErrors' = totalErrors
            /\ th' = [th EXCEPT ![t] = Return(r, r.err)]
    /\ UNCHANGED <<queue, spare, totalLogs, lastLog, validatePayload, lostEntry, hist>>
    /\ UNCHANGED lvars

\* SendIncErr that counts a failure twice
SendIncErr_Twice(t) ==
    LET r == th[t]
        r1 == [r EXCEPT !.eff.errs = r.eff.errs + 1]
    IN
    /\ r.pc = "incErr"
    /\ CanLock("stats")
    /\ totalErrors' = totalErrors + 2
    /\ th' = [th EXCEPT ![t] =
           IF Requeued(r) THEN [r1 EXCEPT !.pc = "add"] ELSE Return(r1, r.err)]
    /\ UNCHANGED <<queue, spare, totalLogs, lastLog, validatePayload, lostEntry, hist>>
    /\ UNCHANGED lvars

\* c.stats.IncrementErrors() on each failure path
SendIncErr(t) ==
    LET r == th[t]
        r1 == [r EXCEPT !.eff.errs = r.eff.errs + 1]
    IN
    /\ r.pc = "incErr"
    /\ CanLock("stats")
    /\ totalErrors' = totalErrors + 1
    /\ th' = [th EXCEPT ![t] =
           IF Requeued(r) THEN [r1 EXCEPT !.pc = "add"] ELSE Return(r1, r.err)]
    /\ UNCHANGED <<queue, spare, totalLogs, lastLog, validatePayload, lostEntry, hist>>
    /\ UNCHANGED lvars

\* SendAdd that reports success once the entry is queued
SendAdd_Swallow(t) ==
    LET r == th[t]
        r1 == [r EXCEPT !.eff.adds = r.eff.adds + 1]
        a == GoAppend(queue, spare, r.data)
    IN
    /\ r.pc = "add"
    /\ CanLock("rq")
    /\ queue' = a.queue
    /\ spare' = a.spare
    /\ th' = [th EXCEPT ![t] = Return(r1, Nil)]
    /\ UNCHANGED <<totalLogs, totalErrors, lastLog, validatePayload, lostEntry, hist>>
    /\ UNCHANGED lvars

\* c.retryQueue.Add(data), then return the error
SendAdd(t) ==
    LET a == GoAppend(queue, spare, th[t].data)
        th1 == IF a.moved THEN Moved(0) ELSE th
        r == th1[t]
        r1 == [r EXCEPT !.eff.adds = r.eff.adds + 1]
    IN
    /\ th[t].pc = "add"
    /\ CanLock("rq")
    /\ queue' = a.queue
    /\ spare' = a.spare
    /\ th' = [th1 EXCEPT ![t] = Return(r1, r.err)]
    /\ hist' = IF hist.on
               THEN [hist EXCEPT !.enqueued = @ \cup {r.data},
                                 !.added = @ (+) SetToBag({r.data}),
                                 !.raced = @ \/ FlushRunning]
               ELSE hist
    /\ UNCHANGED <<totalLogs, totalErrors, lastLog, validatePayload, lostEntry>>
    /\ UNCHANGED lvars

----------------------------------------------------------------------------
(* The public operations of the client *)

\* LogCall whose IncrementLogs does not unlock statsManager.mutex
LogCall_HoldStats(t, U) ==
    /\ th[t].pc = "idle"
    /\ totalLogs < U.maxLogs
    /\ \E d \in U.inputs, c \in U.ctxs : SendBegin(t, U, Frame("Log", c), d)
    /\ mu' = IF th'[t].pc = "do"
             THEN [mu EXCEPT !.stats = {[who |-> t, mode |-> "w"]}]
             ELSE mu
    /\ UNCHANGED <<queue, spare, totalErrors, validatePayload, lostEntry, hist>>
    /\ UNCHANGED <<loggers, heap, simple, timers, backoff>>

\* Client.Log(ctx, data)
LogCall(t, U) ==
    /\ th[t].pc = "idle"
    /\ totalLogs < U.maxLogs
    /\ \E d \in U.inputs, c \in U.ctxs : SendBegin(t, U, Frame("Log", c), d)
    /\ UNCHANGED <<queue, spare, totalErrors, validatePayload, lostEntry, hist>>
    /\ UNCHANGED lvars

\* flush: queue := c.retryQueue.GetAll()
FlushCall(t, U) ==
    /\ th[t].pc = "idle"
    /\ CanRLock("rq")
    /\ \E c \in U.ctxs :
           th' = [th EXCEPT ![t] =
               [Frame("Flush", c) EXCEPT !.pc = "clear", !.snapshot = MakeCopy(queue).elems,
                                         !.shared = MakeCopy(queue).shared,
                                         !.base = [totalLogs |-> totalLogs,
                                                   totalErrors |-> totalErrors]]]
    /\ hist' = IF hist.on THEN [hist EXCEPT !.overlap = @ \/ FlushRunning] ELSE hist
    /\ UNCHANGED <<queue, spare, totalLogs, totalErrors, lastLog, validatePayload, lostEntry>>
    /\ UNCHANGED lvars

\* the entries some running flush holds in its snapshot
Held == UNION {{th[u].snapshot[i] : i \in 1..Len(th[u].snapshot)} : u \in DOMAIN th}

\* FlushClear whose Clear leaves the queue as it is
FlushClear_Keep(t) ==
    LET r == th[t] IN
    /\ r.pc = "clear"
    /\ CanLock("rq")
    /\ th' = [th EXCEPT ![t] =
           IF r.snapshot = <<>>
           THEN [r EXCEPT !.pc = "idle"]
           ELSE [r EXCEPT !.pc = "send", !.idx = 1]]
    /\ UNCHANGED <<queue, spare, totalLogs, totalErrors, lastLog, validatePayload, lostEntry,
                   hist>>
    /\ UNCHANGED lvars

\* flush: c.retryQueue.Clear(), success := true, and the loop's first test
FlushClear(t) ==
    LET r == th[t] IN
    /\ r.pc = "clear"
    /\ CanLock("rq")
    /\ queue' = <<>>
    /\ spare' = queue \o spare
    /\ lostEntry' = (lostEntry \/ \E i \in 1..Len(queue) : queue[i] \notin Held)
    /\ th' = [th EXCEPT ![t] =
           IF r.snapshot = <<>>
           THEN [r EXCEPT !.pc = "idle"]
           ELSE [r EXCEPT !.pc = "send", !.idx = 1]]
    /\ UNCHANGED <<totalLogs, totalErrors, lastLog, validatePayload, hist>>
    /\ UNCHANGED lvars

\* flush: c.sendLog(ctx, data) for the next entry of the snapshot
FlushResend(t, U) ==
    LET r == th[t] IN
    /\ r.pc = "send"
    /\ totalLogs < U.maxLogs
    /\ SendBegin(t, U, r, Snapshot(r)[r.idx])
    /\ UNCHANGED <<queue, spare, totalErrors, validatePayload, lostEntry, hist>>
    /\ UNCHANGED lvars

\* clearRetryQueue
ClearRetryQueue(t) ==
    /\ th[t].pc = "idle"
    /\ CanLock("rq")
    /\ queue' = <<>>
    /\ spare' = queue \o spare
    /\ th' = [th EXCEPT ![t] = Frame("ClearRetryQueue", "background")]
    /\ UNCHANGED <<totalLogs, totalErrors, lastLog, validatePayload, lostEntry, hist>>
    /\ UNCHANGED lvars

\* getRetryQueueStatus
GetRetryQueueStatus(t) ==
    /\ th[t].pc = "idle"
    /\ CanRLock("rq")
    /\ th' = [th EXCEPT ![t] =
           [Frame("GetRetryQueueStatus", "background") EXCEPT !.count = Len(queue)]]
    /\ UNCHANGED <<queue, spare, totalLogs, totalErrors, lastLog, validatePayload, lostEntry, hist>>
    /\ UNCHANGED lvars

\* retryQueue.Size: rq.mutex.RLock()
SizeRLock(t) ==
    /\ th[t].pc = "idle"
    /\ CanRLock("rq")
    /\ mu' = [mu EXCEPT !.rq = @ \cup {[who |-> t, mode |-> "r"]}]
    /\ th' = [th EXCEPT ![t] = [Frame("Size", "background") EXCEPT !.pc = "size"]]
    /\ UNCHANGED <<queue, spare, totalLogs, totalErrors, lastLog, validatePayload, lostEntry, hist>>
    /\ UNCHANGED <<loggers, heap, simple, timers, backoff>>

\* retryQueue.Size: return len(rq.queue), and the deferred RUnlock
SizeReturn(t) ==
    LET r == th[t] IN
    /\ r.pc = "size"
    /\ mu' = [mu EXCEPT !.rq = Unlocked(@, t)]
    /\ th' = [th EXCEPT ![t] = [r EXCEPT !.pc = "idle", !.count = Len(queue)]]
    /\ UNCHANGED <<queue, spare, totalLogs, totalErrors, lastLog, validatePayload, lostEntry, hist>>
    /\ UNCHANGED <<loggers, heap, simple, timers, backoff>>

\* ErrorRate by integer division
ErrorRate_IntDiv(errors, logs) ==
    IF logs > 0 THEN [num |-> (errors \div logs) * 100, den |-> 1]
    ELSE [num |-> 0, den |-> 1]

\* errorRate := 0.0; if totalLogs > 0 { errorRate = totalErrors / totalLogs * 100 }
\* (float64 taken for exact: the quotient of errors * 100 by logs)
ErrorRate(errors, logs) ==
    IF logs > 0 THEN [num |-> errors * 100, den |-> logs]
    ELSE [num |-> 0, den |-> 1]

\* GetStatsRLock that does not lock
GetStatsRLock_NoLock(t) ==
    /\ th[t].pc = "idle"
    /\ th' = [th EXCEPT ![t] = [Frame("GetStats", "background") EXCEPT !.pc = "rate"]]
    /\ UNCHANGED <<queue, spare, totalLogs, totalErrors, lastLog, validatePayload, lostEntry, hist>>
    /\ UNCHANGED lvars

\* statsManager.GetStats: sm.mutex.RLock()
GetStatsRLock(t) ==
    /\ th[t].pc = "idle"
    /\ CanRLock("stats")
    /\ mu' = [mu EXCEPT !.stats = @ \cup {[who |-> t, mode |-> "r"]}]
    /\ th' = [th EXCEPT ![t] = [Frame("GetStats", "background") EXCEPT !.pc = "rate"]]
    /\ UNCHANGED <<queue, spare, totalLogs, totalErrors, lastLog, validatePayload, lostEntry, hist>>
    /\ UNCHANGED <<loggers, heap, simple, timers, backoff>>

\* GetStatsRate that reads the size of the retry queue as well, taking
\* rq.mutex.RLock() inside the statistics lock and keeping it
GetStatsRate_WithQueue(t) ==
    LET r == th[t] IN
    /\ r.pc = "rate"
    /\ CanRLock("rq")
    /\ mu' = [mu EXCEPT !.rq = @ \cup {[who |-> t, mode |-> "r"]}]
    /\ th' = [th EXCEPT ![t] =
           [r EXCEPT !.pc = "stats", !.stats.errorRate = ErrorRate(totalErrors, totalLogs)]]
    /\ UNCHANGED <<queue, spare, totalLogs, totalErrors, lastLog, validatePayload, lostEntry, hist>>
    /\ UNCHANGED <<loggers, heap, simple, timers, backoff>>

\* statsManager.GetStats: the error rate from the two counters
GetStatsRate(t) ==
    LET r == th[t] IN
    /\ r.pc = "rate"
    /\ th' = [th EXCEPT ![t] =
           [r EXCEPT !.pc = "stats", !.stats.errorRate = ErrorRate(totalErrors, totalLogs)]]
    /\ UNCHANGED <<queue, spare, totalLogs, totalErrors, lastLog, validatePayload, lostEntry, hist>>
    /\ UNCHANGED lvars

\* statsManager.GetStats: return Stats{TotalLogs, LastLog, ErrorRate}, and the
\* deferred RUnlock
GetStatsReturn(t) ==
    LET r == th[t] IN
    /\ r.pc = "stats"
    /\ mu' = [mu EXCEPT !.stats = Unlocked(@, t)]
    /\ th' = [th EXCEPT ![t] =
           [r EXCEPT !.pc = "idle", !.stats.totalLogs = totalLogs, !.stats.lastLog = lastLog]]
    /\ UNCHANGED <<queue, spare, totalLogs, totalErrors, lastLog, validatePayload, lostEntry, hist>>
    /\ UNCHANGED <<loggers, heap, simple, timers, backoff>>

\* getLogs up to its HTTP request: the query string
ReadCall(t, U) ==
    /\ th[t].pc = "idle"
    /\ \E c \in U.ctxs : th' = [th EXCEPT ![t] = [Frame("getLogs", c) EXCEPT !.pc = "rdo"]]
    /\ UNCHANGED <<queue, spare, totalLogs, totalErrors, lastLog, validatePayload, lostEntry, hist>>
    /\ UNCHANGED lvars

\* the calls that read from the API: getLogs, getStats, getSummary, and
\* getErrorRate, getTrend and getPeakDay, which return a field of getSummary
ReadOps == {"getLogs", "getStats", "getSummary", "getErrorRate", "getTrend", "getPeakDay"}

\* fmt.Errorf("failed to decode response: %w", err)
DecodeError ==
    [type |-> "error", field |-> "", message |-> "failed to decode response", status |-> 0]

\* one of the reading calls up to its HTTP request
ReadOpCall(t, U) ==
    /\ th[t].pc = "idle"
    /\ \E o \in ReadOps, c \in U.ctxs :
           th' = [th EXCEPT ![t] = [Frame(o, c) EXCEPT !.pc = "rdo"]]
    /\ UNCHANGED <<queue, spare, totalLogs, totalErrors, lastLog, validatePayload, lostEntry, hist>>
    /\ UNCHANGED lvars

\* ReadDo that treats a failure as sendLog does: counted, and requeued when
\* it is retriable
ReadDo_AsSend(t, U) ==
    LET r == th[t] IN
    /\ r.pc = "rdo"
    /\ r.ctx # "nil"
    /\ \E o \in DoOutcomes(U, r.ctx) :
           LET r1 == [r EXCEPT !.pc = "idle", !.resp = o, !.eff.nets = 1]
               e == IF o.kind = "error" THEN NetworkError("request failed")
                    ELSE IF o.status >= 400 THEN APIError(o.status) ELSE Nil
           IN  /\ th' = [th EXCEPT ![t] = [r1 EXCEPT !.err = e]]
               /\ totalErrors' = IF e = Nil THEN totalErrors ELSE totalErrors + 1
               /\ queue' = IF o.kind = "response" /\ Retriable(o.status)
                            THEN Append(queue, NoData) ELSE queue
    /\ UNCHANGED <<spare, totalLogs, lastLog, validatePayload, lostEntry, hist>>
    /\ UNCHANGED lvars

\* a reading call: http.NewRequestWithContext, c.httpClient.Do, the status,
\* the decoded body
ReadDo(t, U) ==
    LET r == th[t] IN
    /\ r.pc = "rdo"
    /\ IF r.ctx = "nil"
       THEN th' = [th EXCEPT ![t] =
                [r EXCEPT !.pc = "idle", !.err = NetworkError("failed to create request")]]
       ELSE \E o \in DoOutcomes(U, r.ctx), decoded \in BOOLEAN :
                LET r1 == [r EXCEPT !.pc = "idle", !.resp = o, !.eff.nets = 1] IN
                /\ (o.kind = "error" \/ o.status >= 400) => decoded
                /\ th' = [th EXCEPT ![t] =
                       IF o.kind = "error" THEN [r1 EXCEPT !.err = NetworkError("request failed")]
                       ELSE IF o.status >= 400 THEN [r1 EXCEPT !.err = APIError(o.status)]
                       ELSE IF ~decoded THEN [r1 EXCEPT !.err = DecodeError]
                       ELSE [r1 EXCEPT !.err = Nil]]
    /\ UNCHANGED <<queue, spare, totalLogs, totalErrors, lastLog, validatePayload, lostEntry, hist>>
    /\ UNCHANGED lvars

----------------------------------------------------------------------------
(* CheckLogsLogger *)

\* the options of newCheckLogsLogger: nil, or a LoggerOptions value
NilOptions ==
    [isNil |-> TRUE, validatePayload |-> FALSE, silent |-> FALSE, consoleOutput |-> FALSE,
     enabledLevels |-> {}, source |-> 0, userID |-> 0, defaultContext |-> NilContext]

\* newCheckLogsLogger: the defaults, overridden by the options given
newCheckLogsLogger(o) ==
    IF o.isNil
    THEN [validatePayload |-> TRUE, silent |-> FALSE, consoleOutput |-> TRUE,
          enabledLevels |-> ValidLevels, source |-> 0, userID |-> 0,
          defaultContext |-> NilContext]
    ELSE [validatePayload |-> o.validatePayload, silent |-> o.silent,
          consoleOutput |-> o.consoleOutput,
          enabledLevels |-> IF o.enabledLevels # {} THEN o.enabledLevels ELSE ValidLevels,
          source |-> o.source, userID |-> o.userID,
          defaultContext |-> IF o.defaultContext.isNil THEN NilContext
                             ELSE Ctx([k \in DOMAIN o.defaultContext.m |-> o.defaultContext.m[k]])]

\* the map a logger's defaultContext refers to (reference 0: the nil map)
Deref(ref) == IF ref = 0 THEN NilContext ELSE Ctx(heap[ref])

\* CopyInto that keeps the value a key already has
CopyInto_KeepOld(dst, src) ==
    IF src.isNil THEN dst
    ELSE [k \in DOMAIN dst \cup DOMAIN src.m |->
             IF k \in DOMAIN dst THEN dst[k] ELSE src.m[k]]

\* for k, v := range src { dst[k] = v }, for a src that may be nil
CopyInto(dst, src) ==
    IF src.isNil THEN dst
    ELSE [k \in DOMAIN dst \cup DOMAIN src.m |->
             IF k \in DOMAIN src.m THEN src.m[k] ELSE dst[k]]

isLevelEnabled(L, level) == level \in L.enabledLevels

\* buildLogData: a fresh context map, the default context, then the call's
buildLogData(L, level, message, context, now) ==
    Entry(message, level, L.source,
          Ctx(CopyInto(CopyInto(EmptyMap, Deref(L.defaultContext)), context)), now)

\* CheckLogsLogger.log up to the IncrementLogs of the sendLog it calls
LoggerLog(t, U) ==
    /\ th[t].pc = "idle"
    /\ \E l \in 1..Len(loggers), a \in U.args, c \in U.ctxs, now \in U.clock :
           LET L == loggers[l]
               f == [Frame("LoggerLog", c) EXCEPT !.lg = l, !.arg = a]
           IN  IF L.silent \/ ~isLevelEnabled(L, a.level)
               THEN /\ th' = [th EXCEPT ![t] = [f EXCEPT !.err = Nil]]
                    /\ UNCHANGED <<totalLogs, lastLog>>
               ELSE /\ totalLogs < U.maxLogs
                    /\ SendBegin(t, U, [f EXCEPT !.echo = IF L.consoleOutput THEN 1 ELSE 0],
                                 buildLogData(L, a.level, a.message, a.context, now))
    /\ UNCHANGED <<queue, spare, totalErrors, validatePayload, lostEntry, hist>>
    /\ UNCHANGED lvars

\* createChild: newContext := make(map), and the copy of the parent's context
CreateChild(t, U) ==
    /\ th[t].pc = "idle"
    /\ Len(loggers) < U.maxLoggers
    /\ \E l \in 1..Len(loggers), x \in U.extras :
           th' = [th EXCEPT ![t] =
               [Frame("createChild", "background") EXCEPT
                   !.pc = "child", !.lg = l, !.arg = [NoArg EXCEPT !.context = x],
                   !.data = [NoData EXCEPT
                       !.context = Ctx(CopyInto(EmptyMap, Deref(loggers[l].defaultContext)))]]]
    /\ UNCHANGED <<queue, spare, totalLogs, totalErrors, lastLog, validatePayload, lostEntry, hist>>
    /\ UNCHANGED lvars

\* CreateChildDone that adds the child's context to the parent's own map
CreateChildDone_InPlace(t) ==
    LET r == th[t]
        ref == loggers[r.lg].defaultContext
        newContext == CopyInto(r.data.context.m, r.arg.context)
    IN
    /\ r.pc = "child"
    /\ heap' = IF ref = 0 THEN Append(heap, newContext) ELSE [heap EXCEPT ![ref] = newContext]
    /\ loggers' = Append(loggers,
           [loggers[r.lg] EXCEPT !.parent = r.lg, !.extra = r.arg.context,
                                 !.defaultContext = IF ref = 0 THEN Len(heap) + 1 ELSE ref])
    /\ th' = [th EXCEPT ![t] = [r EXCEPT !.pc = "idle", !.count = Len(loggers) + 1]]
    /\ UNCHANGED <<queue, spare, totalLogs, totalErrors, lastLog, validatePayload, lostEntry, hist>>
    /\ UNCHANGED <<simple, mu, timers, backoff>>

\* createChild: the copy of the child's context, and the new logger
CreateChildDone(t) ==
    LET r == th[t]
        newContext == CopyInto(r.data.context.m, r.arg.context)
    IN
    /\ r.pc = "child"
    /\ heap' = Append(heap, newContext)
    /\ loggers' = Append(loggers,
           [loggers[r.lg] EXCEPT !.parent = r.lg, !.defaultContext = Len(heap) + 1,
                                 !.extra = r.arg.context])
    /\ th' = [th EXCEPT ![t] = [r EXCEPT !.pc = "idle", !.count = Len(loggers) + 1]]
    /\ UNCHANGED <<queue, spare, totalLogs, totalErrors, lastLog, validatePayload, lostEntry, hist>>
    /\ UNCHANGED <<simple, mu, timers, backoff>>

----------------------------------------------------------------------------
(* Timers. A time.Duration is counted in ticks of half a millisecond.      *)

\* the ticks of one millisecond
TicksPerMs == 2

\* the bytes of the decimal digits of n
RECURSIVE Digits(_)
Digits(n) == IF n < 10 THEN 1 ELSE 1 + Digits(n \div 10)

\* the bytes of fmt.Sprintf("%v", duration): "0s", "500µs", "1ms", "1.5ms"
DurationBytes(d) ==
    IF d = 0 THEN 2
    ELSE IF d < TicksPerMs THEN 6
    ELSE IF d % TicksPerMs = 0 THEN Digits(d \div TicksPerMs) + 2
    ELSE Digits(d \div TicksPerMs) + 4

\* duration.Milliseconds() of a duration of d ticks, rounded up
Milliseconds_Ceil(d) == (d + TicksPerMs - 1) \div TicksPerMs

\* duration.Milliseconds(): the whole milliseconds of a duration of d ticks
Milliseconds(d) == d \div TicksPerMs

\* an integer context value
IntVal(n) == [v |-> "int", bytes |-> Digits(n), n |-> n]

\* the context of endTimer and of Timer.End:
\* {"operation": t.name, "duration_ms": duration.Milliseconds()}
TimerContext(name, d) ==
    Ctx([k \in {"operation", "duration_ms"} |->
            IF k = "operation" THEN Val(name, 4) ELSE IntVal(Milliseconds(d))])

\* len(fmt.Sprintf("%s completed in %v", t.message, duration))
TimerMessage(message, d) == message + 14 + DurationBytes(d)

\* createTimer: &Timer{start: time.Now(), name, message, logger: l}
CreateTimer(t, U) ==
    /\ th[t].pc = "idle"
    /\ Len(timers) < U.maxTimers
    /\ \E l \in 1..Len(loggers), n \in U.names, m \in U.tmessages, now \in U.clock :
           /\ timers' = Append(timers, [kind |-> "CheckLogsLogger", lg |-> l, start |-> now,
                                        name |-> n, message |-> m])
           /\ th' = [th EXCEPT ![t] =
                  [Frame("createTimer", "background") EXCEPT
                      !.lg = l, !.timer = Len(timers) + 1]]
    /\ UNCHANGED <<queue, spare, totalLogs, totalErrors, lastLog, validatePayload, lostEntry, hist>>
    /\ UNCHANGED <<loggers, heap, simple, mu, backoff>>

\* EndTimer that ends the timer: an End that follows an End of the same
\* timer logs nothing
EndTimer_Once(t, U) ==
    /\ th[t].pc = "idle"
    /\ \E i \in 1..Len(timers), now \in U.clock :
           LET tm == timers[i]
               d == now - tm.start
               a == [NoArg EXCEPT !.level = "info", !.message = TimerMessage(tm.message, d),
                                  !.context = TimerContext(tm.name, d)]
               L == loggers[tm.lg]
               f == [Frame("endTimer", "background") EXCEPT
                        !.lg = tm.lg, !.arg = a, !.timer = i, !.count = d]
           IN  /\ tm.kind = "CheckLogsLogger"
               /\ now >= tm.start
               /\ IF \/ L.silent \/ ~isLevelEnabled(L, a.level)
                     \/ th[t].op = "endTimer" /\ th[t].timer = i
                  THEN /\ th' = [th EXCEPT ![t] = [f EXCEPT !.err = Nil]]
                       /\ UNCHANGED <<totalLogs, lastLog>>
                  ELSE /\ totalLogs < U.maxLogs
                       /\ SendBegin(t, U, [f EXCEPT !.echo = IF L.consoleOutput THEN 1 ELSE 0],
                                    buildLogData(L, a.level, a.message, a.context, now))
    /\ UNCHANGED <<queue, spare, totalErrors, validatePayload, lostEntry, hist>>
    /\ UNCHANGED lvars

\* endTimer: the duration, the context, and t.logger.Info up to the
\* IncrementLogs of the sendLog it calls; the duration is what it returns
EndTimer(t, U) ==
    /\ th[t].pc = "idle"
    /\ \E i \in 1..Len(timers), now \in U.clock :
           LET tm == timers[i]
               d == now - tm.start
               a == [NoArg EXCEPT !.level = "info", !.message = TimerMessage(tm.message, d),
                                  !.context = TimerContext(tm.name, d)]
               L == loggers[tm.lg]
               f == [Frame("endTimer", "background") EXCEPT
                        !.lg = tm.lg, !.arg = a, !.timer = i, !.count = d]
           IN  /\ tm.kind = "CheckLogsLogger"
               /\ now >= tm.start
               /\ IF L.silent \/ ~isLevelEnabled(L, a.level)
                  THEN /\ th' = [th EXCEPT ![t] = [f EXCEPT !.err = Nil]]
                       /\ UNCHANGED <<totalLogs, lastLog>>
                  ELSE /\ totalLogs < U.maxLogs
                       /\ SendBegin(t, U, [f EXCEPT !.echo = IF L.consoleOutput THEN 1 ELSE 0],
                                    buildLogData(L, a.level, a.message, a.context, now))
    /\ UNCHANGED <<queue, spare, totalErrors, validatePayload, lostEntry, hist>>
    /\ UNCHANGED lvars

----------------------------------------------------------------------------
(* The Logger of CheckLogs.go: it sends by itself and owns its retry queue *)

CheckLogsError(ty, m, code) == [type |-> ty, field |-> "", message |-> m, status |-> code]

\* NewLogger: the defaults, overridden by the options given; the context map
\* of the options is kept by reference (ref: its place in the heap, 0: nil)
NewLogger(apiKey, o, ref) ==
    [parent |-> 0, apiKey |-> apiKey,
     silent |-> IF o.isNil THEN FALSE ELSE o.silent,
     consoleOutput |-> IF o.isNil THEN TRUE ELSE o.consoleOutput,
     source |-> IF o.isNil THEN 0 ELSE o.source,
     context |-> IF o.isNil THEN 0 ELSE ref,
     extra |-> IF o.isNil THEN NilContext ELSE o.defaultContext,
     retryQueue |-> <<>>, spare |-> <<>>, mutex |-> {}]

\* Logger.validateLogData
LoggerValidate(d) ==
    IF d.message = 0
    THEN CheckLogsError("ValidationError", "message is required", 0)
    ELSE IF d.message > MaxMessageLen
    THEN CheckLogsError("ValidationError", "message too long (max 1024 characters)", 0)
    ELSE IF d.source # 0 /\ d.source > MaxSourceLen
    THEN CheckLogsError("ValidationError", "source too long (max 100 characters)", 0)
    ELSE Nil

\* MergeAll in which a map given earlier keeps its keys
RECURSIVE MergeAll_FirstWins(_, _)
MergeAll_FirstWins(dst, contexts) ==
    IF contexts = <<>> THEN dst
    ELSE MergeAll_FirstWins(CopyInto_KeepOld(dst, Head(contexts)), Tail(contexts))

\* Logger.log: the call-site maps merged in order into a map made when at
\* least one is given
RECURSIVE MergeAll(_, _)
MergeAll(dst, contexts) ==
    IF contexts = <<>> THEN dst
    ELSE MergeAll(CopyInto(dst, Head(contexts)), Tail(contexts))

\* Logger.sendLog: the keys of the default context the entry does not have
AddMissing(c, def) ==
    IF def.isNil THEN c
    ELSE LET m == IF c.isNil THEN EmptyMap ELSE c.m
         IN  Ctx([k \in DOMAIN m \cup DOMAIN def.m |->
                     IF k \in DOMAIN m THEN m[k] ELSE def.m[k]])

\* the error type and the retry decision of Logger.sendLog for a status >= 400
LoggerErrType(status) ==
    IF status = 401 THEN "AuthenticationError"
    ELSE IF status = 403 THEN "AuthorizationError"
    ELSE IF status = 429 THEN "RateLimitError"
    ELSE IF status = 400 THEN "ValidationError"
    ELSE IF status >= 500 THEN "ServerError"
    ELSE "ClientError"

LoggerShouldRetry(status) == status = 429 \/ (status \notin {401, 403, 400} /\ status >= 500)

\* Logger.sendLog returns e: log returns it; FlushRetryQueue counts a nil
\* and moves to the next entry
LoggerReturn(r, e) ==
    IF r.op = "FlushRetryQueue"
    THEN LET r1 == [r EXCEPT !.err = e,
                             !.count = IF e = Nil THEN r.count + 1 ELSE r.count,
                             !.errs = Append(r.errs, [d |-> r.data, e |-> e])]
         IN  IF r.idx < Len(r.snapshot)
             THEN [r1 EXCEPT !.pc = "lsend", !.idx = r.idx + 1]
             ELSE [r1 EXCEPT !.pc = "idle", !.snapshot = <<>>, !.idx = 0]
    ELSE [r EXCEPT !.pc = "idle", !.err = e]

\* LoggerSendBegin that checks the API key before it validates the entry
LoggerSendBegin_KeyFirst(t, U, r, d0) ==
    \E now \in U.clock :
        LET L == simple[r.lg]
            d1 == IF d0.timestamp = 0 THEN [d0 EXCEPT !.timestamp = now] ELSE d0
            d2 == IF d1.source = 0 /\ L.source # 0 THEN [d1 EXCEPT !.source = L.source] ELSE d1
            d == [d2 EXCEPT !.context = AddMissing(d2.context, Deref(L.context))]
            v == LoggerValidate(d)
            r0 == [r EXCEPT !.data = d, !.resp = NoResp, !.err = NoErr, !.eff = ZeroEff,
                            !.echo = 0, !.diag = 0,
                            !.pre = IF U.pre THEN [NoPre EXCEPT !.queue = L.retryQueue] ELSE NoPre]
            r1 == [r0 EXCEPT !.echo = IF L.consoleOutput /\ ~L.silent THEN 1 ELSE 0]
        IN  th' = [th EXCEPT ![t] =
                IF ~L.apiKey
                THEN LoggerReturn([r0 EXCEPT !.diag = IF L.silent THEN 0 ELSE 1],
                                  CheckLogsError("ConfigurationError", "API key is required", 0))
                ELSE IF v # Nil THEN LoggerReturn(r0, v)
                ELSE IF L.silent THEN LoggerReturn(r1, Nil)
                ELSE [r1 EXCEPT !.pc = "ldo"]]

\* Logger.sendLog up to the HTTP request: defaults, default context,
\* validation, console line, API key, silent mode
LoggerSendBegin(t, U, r, d0) ==
    \E now \in U.clock :
        LET L == simple[r.lg]
            d1 == IF d0.timestamp = 0 THEN [d0 EXCEPT !.timestamp = now] ELSE d0
            d2 == IF d1.source = 0 /\ L.source # 0 THEN [d1 EXCEPT !.source = L.source] ELSE d1
            d == [d2 EXCEPT !.context = AddMissing(d2.context, Deref(L.context))]
            v == LoggerValidate(d)
            r0 == [r EXCEPT !.data = d, !.resp = NoResp, !.err = NoErr, !.eff = ZeroEff,
                            !.echo = 0, !.diag = 0,
                            !.pre = IF U.pre THEN [NoPre EXCEPT !.queue = L.retryQueue] ELSE NoPre]
            r1 == [r0 EXCEPT !.echo = IF L.consoleOutput /\ ~L.silent THEN 1 ELSE 0]
        IN  th' = [th EXCEPT ![t] =
                IF v # Nil THEN LoggerReturn(r0, v)
                ELSE IF ~L.apiKey
                THEN LoggerReturn([r1 EXCEPT !.diag = IF L.silent THEN 0 ELSE 1],
                                  CheckLogsError("ConfigurationError", "API key is required", 0))
                ELSE IF L.silent THEN LoggerReturn(r1, Nil)
                ELSE [r1 EXCEPT !.pc = "ldo"]]

\* Logger.Info and the other level methods: log, then sendLog
LoggerCall(t, U) ==
    /\ th[t].pc = "idle"
    /\ \E l \in 1..Len(simple), a \in U.sargs, c \in U.ctxs :
           /\ Len(simple[l].retryQueue) < U.maxQueue
           /\ LoggerSendBegin(t, U,
                  [Frame("Logger.log", c) EXCEPT !.lg = l, !.arg = a],
                  Entry(a.message, a.level, 0,
                        IF a.contexts = <<>> THEN NilContext ELSE Ctx(MergeAll(EmptyMap, a.contexts)),
                        0))
    /\ UNCHANGED <<queue, spare, totalLogs, totalErrors, lastLog, validatePayload, lostEntry, hist>>
    /\ UNCHANGED lvars

\* Logger.sendLog: json.Marshal, http.NewRequestWithContext, httpClient.Do
LoggerDo(t, U) ==
    LET r == th[t] IN
    /\ r.pc = "ldo"
    /\ IF ~Marshalable(r.data)
       THEN th' = [th EXCEPT ![t] =
                LoggerReturn(r, CheckLogsError("SerializationError", "", 0))]
       ELSE IF r.ctx = "nil"
       THEN th' = [th EXCEPT ![t] =
                [r EXCEPT !.pc = "ladd", !.err = CheckLogsError("NetworkError", "", 0)]]
       ELSE \E o \in DoOutcomes(U, r.ctx) :
                LET r1 == [r EXCEPT !.resp = o, !.eff.nets = 1] IN
                IF o.kind = "error"
                THEN th' = [th EXCEPT ![t] =
                         [r1 EXCEPT !.pc = "ladd", !.err = CheckLogsError("NetworkError", "", 0)]]
                ELSE IF o.status >= 400
                THEN LET e == CheckLogsError(LoggerErrType(o.status), "", o.status)
                         r2 == [r1 EXCEPT !.diag = IF o.status \in {401, 403} THEN 1 ELSE 0]
                     IN  th' = [th EXCEPT ![t] =
                             IF LoggerShouldRetry(o.status)
                             THEN [r2 EXCEPT !.pc = "ladd", !.err = e]
                             ELSE LoggerReturn(r2, e)]
                ELSE th' = [th EXCEPT ![t] = LoggerReturn(r1, Nil)]
    /\ UNCHANGED <<queue, spare, totalLogs, totalErrors, lastLog, validatePayload, lostEntry, hist>>
    /\ UNCHANGED lvars

\* Logger.addToRetryQueue, then return the error
LoggerAdd(t) ==
    LET L == simple[th[t].lg]
        a == GoAppend(L.retryQueue, L.spare, th[t].data)
        th1 == IF a.moved THEN Moved(th[t].lg) ELSE th
        r == th1[t]
        r1 == [r EXCEPT !.eff.adds = r.eff.adds + 1]
    IN
    /\ th[t].pc = "ladd"
    /\ simple[r.lg].mutex = {}
    /\ simple' = [simple EXCEPT ![r.lg].retryQueue = a.queue, ![r.lg].spare = a.spare]
    /\ th' = [th1 EXCEPT ![t] = LoggerReturn(r1, r.err)]
    /\ UNCHANGED <<queue, spare, totalLogs, totalErrors, lastLog, validatePayload, lostEntry, hist>>
    /\ UNCHANGED <<loggers, heap, mu, timers, backoff>>

\* LoggerFlushCall that copies the queue and leaves it as it is
LoggerFlushCall_Keep(t, U) ==
    /\ th[t].pc = "idle"
    /\ \E l \in 1..Len(simple), c \in U.ctxs :
           LET q == simple[l].retryQueue
               f == [Frame("FlushRetryQueue", c) EXCEPT !.lg = l, !.snapshot = MakeCopy(q).elems,
                                                        !.shared = MakeCopy(q).shared]
           IN  /\ simple[l].mutex = {}
               /\ simple' = simple
               /\ th' = [th EXCEPT ![t] =
                      IF q = <<>> THEN [f EXCEPT !.snapshot = <<>>]
                      ELSE [f EXCEPT !.pc = "lsend", !.idx = 1]]
    /\ UNCHANGED <<queue, spare, totalLogs, totalErrors, lastLog, validatePayload, lostEntry, hist>>
    /\ UNCHANGED <<loggers, heap, mu, timers, backoff>>

\* FlushRetryQueue: the queue copied and emptied under one Lock
LoggerFlushCall(t, U) ==
    /\ th[t].pc = "idle"
    /\ \E l \in 1..Len(simple), c \in U.ctxs :
           LET q == simple[l].retryQueue
               f == [Frame("FlushRetryQueue", c) EXCEPT !.lg = l, !.snapshot = MakeCopy(q).elems,
                                                        !.shared = MakeCopy(q).shared]
           IN  /\ simple[l].mutex = {}
               /\ simple' = [simple EXCEPT ![l].retryQueue = <<>>, ![l].spare = q \o @]
               /\ th' = [th EXCEPT ![t] =
                      IF q = <<>> THEN [f EXCEPT !.snapshot = <<>>]
                      ELSE [f EXCEPT !.pc = "lsend", !.idx = 1]]
    /\ UNCHANGED <<queue, spare, totalLogs, totalErrors, lastLog, validatePayload, lostEntry, hist>>
    /\ UNCHANGED <<loggers, heap, mu, timers, backoff>>

\* FlushRetryQueue: l.sendLog(ctx, data) for the next entry of the copy
LoggerFlushResend(t, U) ==
    LET r == th[t] IN
    /\ r.pc = "lsend"
    /\ LoggerSendBegin(t, U, r, Snapshot(r)[r.idx])
    /\ UNCHANGED <<queue, spare, totalLogs, totalErrors, lastLog, validatePayload, lostEntry, hist>>
    /\ UNCHANGED lvars

\* the entries of the sequence q, each as often as it is in q
RECURSIVE BagOfSeq(_)
BagOfSeq(q) == IF q = <<>> THEN EmptyBag ELSE SetToBag({Head(q)}) (+) BagOfSeq(Tail(q))

\* the entries a running FlushRetryQueue of frame r has taken and not yet
\* finished resending
PendingOf(r) ==
    IF r.op = "FlushRetryQueue" /\ r.pc \in {"lsend", "ldo", "ladd"}
    THEN BagOfSeq(SubSeq(Snapshot(r), r.idx, Len(r.snapshot)))
    ELSE EmptyBag

\* the entries of the Logger that wait for a resend: those in its queue and
\* those the running flushes hold
Waiting == BagOfSeq(simple[1].retryQueue) (+) PendingOf(th["g1"]) (+) PendingOf(th["g2"])

\* Logger.ClearRetryQueue
LoggerClear(t) ==
    /\ th[t].pc = "idle"
    /\ \E l \in 1..Len(simple) :
           /\ simple[l].mutex = {}
           /\ simple' = [simple EXCEPT ![l].retryQueue = <<>>,
                                        ![l].spare = simple[l].retryQueue \o @]
           /\ th' = [th EXCEPT ![t] = [Frame("Logger.ClearRetryQueue", "background") EXCEPT !.lg = l]]
    /\ UNCHANGED <<queue, spare, totalLogs, totalErrors, lastLog, validatePayload, lostEntry, hist>>
    /\ UNCHANGED <<loggers, heap, mu, timers, backoff>>

\* Logger.GetRetryQueueSize
LoggerSize(t) ==
    /\ th[t].pc = "idle"
    /\ \E l \in 1..Len(simple) :
           /\ \A h \in simple[l].mutex : h.mode = "r"
           /\ th' = [th EXCEPT ![t] =
                  [Frame("GetRetryQueueSize", "background") EXCEPT
                      !.lg = l, !.count = Len(simple[l].retryQueue)]]
    /\ UNCHANGED <<queue, spare, totalLogs, totalErrors, lastLog, validatePayload, lostEntry, hist>>
    /\ UNCHANGED lvars

\* Logger.GetRetryQueueSize: l.mutex.RLock()
LoggerSizeRLock(t) ==
    /\ th[t].pc = "idle"
    /\ \E l \in 1..Len(simple) :
           /\ \A h \in simple[l].mutex : h.mode = "r"
           /\ simple' = [simple EXCEPT ![l].mutex = @ \cup {[who |-> t, mode |-> "r"]}]
           /\ th' = [th EXCEPT ![t] =
                  [Frame("GetRetryQueueSize", "background") EXCEPT !.pc = "lsize", !.lg = l]]
    /\ UNCHANGED <<queue, spare, totalLogs, totalErrors, lastLog, validatePayload, lostEntry, hist>>
    /\ UNCHANGED <<loggers, heap, mu, timers, backoff>>

\* Logger.GetRetryQueueSize: return len(l.retryQueue), and the deferred RUnlock
LoggerSizeReturn(t) ==
    LET r == th[t] IN
    /\ r.pc = "lsize"
    /\ simple' = [simple EXCEPT ![r.lg].mutex = Unlocked(@, t)]
    /\ th' = [th EXCEPT ![t] =
           [r EXCEPT !.pc = "idle", !.count = Len(simple[r.lg].retryQueue)]]
    /\ UNCHANGED <<queue, spare, totalLogs, totalErrors, lastLog, validatePayload, lostEntry, hist>>
    /\ UNCHANGED <<loggers, heap, mu, timers, backoff>>

\* Logger.Time: &Timer{start: time.Now(), name, message, logger: l}
LoggerTime(t, U) ==
    /\ th[t].pc = "idle"
    /\ Len(timers) < U.maxTimers
    /\ \E l \in 1..Len(simple), n \in U.names, m \in U.tmessages, now \in U.clock :
           /\ timers' = Append(timers, [kind |-> "Logger", lg |-> l, start |-> now,
                                        name |-> n, message |-> m])
           /\ th' = [th EXCEPT ![t] =
                  [Frame("Logger.Time", "background") EXCEPT
                      !.lg = l, !.timer = Len(timers) + 1]]
    /\ UNCHANGED <<queue, spare, totalLogs, totalErrors, lastLog, validatePayload, lostEntry, hist>>
    /\ UNCHANGED <<loggers, heap, simple, mu, backoff>>

\* Timer.End: the duration, the context, and t.logger.Info up to the HTTP
\* request of its sendLog; the duration is what it returns
LoggerTimerEnd(t, U) ==
    /\ th[t].pc = "idle"
    /\ \E i \in 1..Len(timers), now \in U.clock :
           LET tm == timers[i]
               d == now - tm.start
               a == [NoArg EXCEPT !.level = "info", !.message = TimerMessage(tm.message, d),
                                  !.contexts = <<TimerContext(tm.name, d)>>]
           IN  /\ tm.kind = "Logger"
               /\ now >= tm.start
               /\ Len(simple[tm.lg].retryQueue) < U.maxQueue
               /\ LoggerSendBegin(t, U,
                      [Frame("Timer.End", "background") EXCEPT
                          !.lg = tm.lg, !.arg = a, !.timer = i, !.count = d],
                      Entry(a.message, a.level, 0, Ctx(MergeAll(EmptyMap, a.contexts)), 0))
    /\ UNCHANGED <<queue, spare, totalLogs, totalErrors, lastLog, validatePayload, lostEntry, hist>>
    /\ UNCHANGED lvars

\* Logger.Child: a new context map, the parent's options with it, the
\* parent's API key and HTTP client, and a retry queue made for the child
LoggerChild(t, U) ==
    /\ th[t].pc = "idle"
    /\ Len(simple) < U.maxLoggers
    /\ \E l \in 1..Len(simple), x \in U.extras :
           LET newContext == CopyInto(CopyInto(EmptyMap, Deref(simple[l].context)), x) IN
           /\ heap' = Append(heap, newContext)
           /\ simple' = Append(simple,
                  [simple[l] EXCEPT !.parent = l, !.context = Len(heap) + 1, !.extra = x,
                                    !.retryQueue = <<>>, !.spare = <<>>, !.mutex = {}])
           /\ th' = [th EXCEPT ![t] =
                  [Frame("Logger.Child", "background") EXCEPT
                      !.lg = l, !.arg = [NoArg EXCEPT !.context = x], !.count = Len(simple) + 1]]
    /\ UNCHANGED <<queue, spare, totalLogs, totalErrors, lastLog, validatePayload, lostEntry, hist>>
    /\ UNCHANGED <<loggers, mu, timers, backoff>>

\* c.validateLogData(&data) called on its own
ValidateCall(t, U) ==
    /\ th[t].pc = "idle"
    /\ \E d \in U.inputs :
           th' = [th EXCEPT ![t] =
               [Frame("validateLogData", "background") EXCEPT
                   !.data = d, !.err = validateLogData(validatePayload, d)]]
    /\ UNCHANGED <<queue, spare, totalLogs, totalErrors, lastLog, validatePayload, lostEntry, hist>>
    /\ UNCHANGED lvars

----------------------------------------------------------------------------
(* Inputs: what the callers pass and what the environment answers.         *)
(* inputs: the entries logged; ctxs: the context.Context passed (live,     *)
(* already cancelled, nil); statuses: the HTTP status codes the transport  *)
(* answers with; neterr: whether it can fail; clock: what time.Now()       *)
(* returns; maxLogs: the cap on totalLogs; pre: whether a frame records    *)
(* the queue and the counters its sendLog began with (of use where no      *)
(* other goroutine runs).                                                  *)

SmallCtx == Ctx([k \in {"k"} |-> Val("a", 3)])

\* the concurrent specification: two valid entries, three kinds of answer
ConcU ==
    [inputs   |-> { Entry(1, "info", 0, NilContext, 1),
                    Entry(1024, "error", 100, SmallCtx, 1) },
     ctxs     |-> {"background"},
     statuses |-> {200, 400, 500},
     neterr   |-> TRUE,
     clock    |-> {1},
     maxLogs  |-> MaxLogs,
     pre      |-> FALSE]

\* a context whose JSON encoding is {"k":v} with v of n - 6 bytes: n bytes
SizedCtx(n) == Ctx([k \in {"k"} |-> Val("x", n - 6)])

\* a context holding a value encoding/json cannot encode
BadCtx == Ctx([k \in {"k"} |-> Val("chan", 0)])

\* the sequential specification: one entry per validation case, every kind
\* of context and of answer
SeqU ==
    [inputs   |-> { Entry(1, "info", 0, NilContext, 0),
                    Entry(1024, "critical", 100, SizedCtx(5000), 1),
                    Entry(0, "info", 0, NilContext, 0),
                    Entry(1025, "info", 0, NilContext, 1),
                    Entry(1, "info", 101, NilContext, 0),
                    Entry(1, "trace", 0, NilContext, 0),
                    Entry(1, "info", 0, SizedCtx(5001), 0),
                    Entry(1, "trace", 0, SizedCtx(5001), 0),
                    Entry(1, "info", 0, BadCtx, 0),
                    Entry(0, "trace", 101, SizedCtx(5001), 0) },
     ctxs     |-> {"background", "cancelled", "nil"},
     statuses |-> {200, 399, 400, 404, 429, 499, 500},
     neterr   |-> TRUE,
     clock    |-> {1, 2},
     maxLogs  |-> MaxSeqLogs,
     pre      |-> TRUE]

\* the flush specification: one goroutine, two valid entries
FlushU ==
    [inputs   |-> { Entry(1, "info", 0, NilContext, 1),
                    Entry(1024, "error", 100, SmallCtx, 2) },
     ctxs     |-> {"background", "cancelled", "nil"},
     statuses |-> {200, 400, 429, 500},
     neterr   |-> TRUE,
     clock    |-> {1},
     maxLogs  |-> MaxFlushLogs,
     pre      |-> TRUE]

\* the validator specification: every combination of the boundary values
VU ==
    [inputs   |-> { Entry(msg, lvl, src, c, 1) :
                        msg \in {0, 1, 1024, 1025},
                        lvl \in {"debug", "info", "warning", "error", "critical", "trace", ""},
                        src \in {0, 1, 100, 101},
                        c \in {NilContext, Ctx(EmptyMap), SmallCtx, SizedCtx(5000),
                               SizedCtx(5001), BadCtx} },
     ctxs     |-> {"background"},
     statuses |-> {},
     neterr   |-> FALSE,
     clock    |-> {1},
     maxLogs  |-> 0,
     pre      |-> FALSE]

\* a context map of one key
OneKey(k, tag) == Ctx([x \in {k} |-> Val(tag, 3)])

\* a context map of two keys
TwoKeys(k1, tag1, k2, tag2) ==
    Ctx([x \in {k1, k2} |-> IF x = k1 THEN Val(tag1, 3) ELSE Val(tag2, 3)])

\* the logger specification: one goroutine; the root logger is built from
\* no options, from options that keep every level, from silent options, or
\* from options that enable two levels only; children add or override a key
LogU ==
    [inputs   |-> { Entry(1, "info", 0, NilContext, 1) },
     options  |-> { NilOptions,
                    [NilOptions EXCEPT !.isNil = FALSE, !.validatePayload = TRUE,
                        !.consoleOutput = TRUE, !.source = 5, !.userID = 7,
                        !.defaultContext = TwoKeys("k", "root", "d", "root")],
                    [NilOptions EXCEPT !.isNil = FALSE, !.validatePayload = TRUE,
                        !.silent = TRUE, !.consoleOutput = TRUE],
                    [NilOptions EXCEPT !.isNil = FALSE, !.enabledLevels = {"error", "critical"},
                        !.defaultContext = OneKey("k", "root")] },
     args     |-> { [level |-> lvl, message |-> msg, context |-> c, contexts |-> <<>>] :
                        lvl \in {"info", "error"}, msg \in {1, 0},
                        c \in {NilContext, TwoKeys("k", "call", "m", "call")} },
     extras   |-> { OneKey("k", "child"), OneKey("e", "child") },
     ctxs     |-> {"background"},
     statuses |-> {200, 399, 500},
     neterr   |-> FALSE,
     clock    |-> {1},
     maxLogs  |-> MaxLoggerLogs,
     maxLoggers |-> MaxLogLoggers,
     pre      |-> TRUE]

\* the child specification: the loggers of LogU, a transport that accepts
\* every entry, and one more generation of loggers
ChildU == [LogU EXCEPT !.statuses = {200}, !.maxLogs = MaxChildLogs, !.maxLoggers = MaxLoggers]

\* the specification of the Logger of CheckLogs.go: one goroutine; the root
\* logger has an API key or none and is built from no options, from options
\* with a source and a context, or from silent options
SimpleU ==
    [soptions |-> { [apiKey |-> TRUE, o |-> NilOptions],
                    [apiKey |-> TRUE,
                     o |-> [NilOptions EXCEPT !.isNil = FALSE, !.consoleOutput = TRUE,
                               !.source = 5, !.defaultContext = TwoKeys("k", "root", "d", "root")]],
                    [apiKey |-> TRUE,
                     o |-> [NilOptions EXCEPT !.isNil = FALSE, !.silent = TRUE,
                               !.consoleOutput = TRUE]],
                    [apiKey |-> FALSE, o |-> NilOptions],
                    [apiKey |-> FALSE,
                     o |-> [NilOptions EXCEPT !.isNil = FALSE, !.silent = TRUE]] },
     sargs    |-> { [level |-> "info", message |-> msg, context |-> NilContext, contexts |-> cs] :
                        msg \in {1, 0},
                        cs \in { <<>>,
                                 <<OneKey("k", "call"), TwoKeys("k", "later", "m", "call")>> } },
     extras   |-> { OneKey("k", "child"), OneKey("e", "child") },
     ctxs     |-> {"background", "nil"},
     statuses |-> {200, 401, 500},
     neterr   |-> FALSE,
     clock    |-> {1},
     maxQueue |-> MaxSimpleQueue,
     maxLoggers |-> MaxSimpleLoggers,
     pre      |-> TRUE]

\* the concurrent logger specification: two goroutines, a root logger built
\* from no options or with a source and a context
ConcLogU ==
    [inputs   |-> { Entry(1, "info", 0, NilContext, 1) },
     options  |-> { NilOptions,
                    [NilOptions EXCEPT !.isNil = FALSE, !.validatePayload = TRUE,
                        !.consoleOutput = TRUE, !.source = 5, !.userID = 7,
                        !.defaultContext = OneKey("k", "root")] },
     args     |-> { [level |-> "error", message |-> 1, context |-> OneKey("k", "call"),
                     contexts |-> <<>>] },
     extras   |-> { OneKey("k", "child"), OneKey("e", "child") },
     ctxs     |-> {"background"},
     statuses |-> {200, 500},
     neterr   |-> FALSE,
     clock    |-> {1},
     maxLogs  |-> MaxConcLoggerLogs,
     maxLoggers |-> MaxConcLoggers,
     pre      |-> FALSE]

\* the timer specification: the loggers of LogU; a timer of a short or of a
\* long message; clock readings 0, 1, 2 and 3 ticks apart
TimerU ==
    [LogU EXCEPT !.statuses = {200, 500}, !.clock = {1, 2, 4}, !.maxLogs = MaxTimerLogs] @@
    [names |-> {"op"}, tmessages |-> {1, 1007}, maxTimers |-> MaxTimers]

\* the timer specification, for the Logger of CheckLogs.go
SimpleTimerU ==
    [SimpleU EXCEPT !.statuses = {200, 500}, !.ctxs = {"background"}, !.clock = {1, 2, 4}] @@
    [names |-> {"op"}, tmessages |-> {1, 1007}, maxTimers |-> MaxTimers]

\* the options specification: the root logger is built from no options, from
\* options that set Source only, or from options that set Source and
\* ValidatePayload; calls with a valid entry, with a message of 1025 bytes
\* and with a context of 5001 bytes
OptionsU ==
    [inputs   |-> { Entry(1, "info", 0, NilContext, 1) },
     options  |-> { NilOptions,
                    [NilOptions EXCEPT !.isNil = FALSE, !.source = 13],
                    [NilOptions EXCEPT !.isNil = FALSE, !.source = 5,
                        !.validatePayload = TRUE] },
     args     |-> { [level |-> "info", message |-> 1, context |-> NilContext, contexts |-> <<>>],
                    [level |-> "info", message |-> 1025, context |-> NilContext,
                     contexts |-> <<>>],
                    [level |-> "info", message |-> 1, context |-> SizedCtx(5001),
                     contexts |-> <<>>] },
     extras   |-> {},
     ctxs     |-> {"background"},
     statuses |-> {200, 500},
     neterr   |-> FALSE,
     clock    |-> {1},
     maxLogs  |-> MaxOptionLogs,
     maxLoggers |-> 1,
     pre      |-> TRUE]

\* the lock specification, for the client: one valid entry, a usable or a
\* nil context, an answer that delivers and one that requeues
LockU ==
    [inputs   |-> { Entry(1, "info", 0, NilContext, 1) },
     ctxs     |-> {"background", "nil"},
     statuses |-> {200, 500},
     neterr   |-> FALSE,
     clock    |-> {1},
     maxLogs  |-> MaxLockLogs,
     pre      |-> FALSE]

\* the reading specification: one valid entry, a usable, a cancelled or a
\* nil context, the transport failing or answering with a success, a client
\* error, 429 or a server error
ReadU ==
    [inputs   |-> { Entry(1, "info", 0, NilContext, 1) },
     ctxs     |-> {"background", "cancelled", "nil"},
     statuses |-> {200, 404, 429, 500},
     neterr   |-> TRUE,
     clock    |-> {1},
     maxLogs  |-> MaxReadLogs,
     pre      |-> FALSE]

\* the delivery specification: two entries, a usable context, the endpoint
\* accepting or answering 500; no resend of a flush is ever held back
LiveU ==
    [inputs   |-> { Entry(1, "info", 0, NilContext, 1),
                    Entry(2, "error", 0, NilContext, 1) },
     ctxs     |-> {"background"},
     statuses |-> {200, 500},
     neterr   |-> FALSE,
     clock    |-> {1},
     maxLogs  |-> MaxLiveLogs + 4 * MaxLiveErrs + 4,
     pre      |-> FALSE]

\* the same once every send succeeds
LiveOkU == [LiveU EXCEPT !.statuses = {200}]

\* the same for the calls of Log
LiveLogU == [LiveU EXCEPT !.maxLogs = MaxLiveLogs]

\* the flush-round specification, for the client: two entries, a usable or a
\* cancelled context, an answer that delivers, one that is final and one that
\* requeues
RoundU ==
    [inputs   |-> { Entry(1, "info", 0, NilContext, 1),
                    Entry(2, "error", 0, NilContext, 2) },
     ctxs     |-> {"background", "cancelled"},
     statuses |-> {200, 400, 500},
     neterr   |-> FALSE,
     clock    |-> {1},
     maxLogs  |-> MaxRoundLogs,
     pre      |-> TRUE]

\* the flush-round specification, for the Logger of CheckLogs.go
SimpleRoundU ==
    [SimpleU EXCEPT
        !.soptions = { [apiKey |-> TRUE, o |-> NilOptions] },
        !.sargs = { [level |-> "info", message |-> 1, context |-> NilContext, contexts |-> cs] :
                        cs \in { <<>>, <<OneKey("k", "call")>> } },
        !.ctxs = {"background", "cancelled"},
        !.statuses = {200, 401, 500},
        !.maxQueue = MaxRoundQueue]

\* the concurrent specification of the Logger of CheckLogs.go: two entries,
\* a usable or a nil context, an answer that delivers, one that is final and
\* one that requeues
SharedU ==
    [SimpleU EXCEPT
        !.soptions = { [apiKey |-> TRUE, o |-> NilOptions] },
        !.sargs = { [level |-> "info", message |-> 1, context |-> NilContext, contexts |-> cs] :
                        cs \in { <<>>, <<OneKey("k", "call")>> } },
        !.ctxs = {"background", "nil"},
        !.statuses = {200, 401, 500},
        !.pre = FALSE,
        !.maxQueue = MaxSharedQueue]

\* the lock specification, for the Logger of CheckLogs.go
SimpleLockU ==
    [SimpleU EXCEPT
        !.soptions = { [apiKey |-> TRUE, o |-> NilOptions] },
        !.sargs = { [level |-> "info", message |-> 1, context |-> NilContext,
                     contexts |-> <<>>] },
        !.ctxs = {"background"},
        !.statuses = {200, 500}]

\* the goroutines of the one-call specification
CallThreads == {"g1", "g2", "g3"}

\* the one-call specification: each goroutine logs once, on the client or
\* through a logger of which it may have made a child, a valid or an invalid
\* entry, with a usable or a nil context
CallsU ==
    [inputs   |-> { Entry(1, "info", 0, NilContext, 1) },
     options  |-> { [NilOptions EXCEPT !.isNil = FALSE, !.validatePayload = TRUE,
                        !.defaultContext = OneKey("k", "root")] },
     args     |-> { [level |-> "info", message |-> msg, context |-> NilContext,
                     contexts |-> <<>>] : msg \in {1, 0} },
     extras   |-> { OneKey("e", "child") },
     ctxs     |-> {"background", "nil"},
     statuses |-> {200, 500},
     neterr   |-> FALSE,
     clock    |-> {1},
     maxLogs  |-> Cardinality(CallThreads),
     maxLoggers |-> MaxCallLoggers,
     pre      |-> FALSE]

\* the child specification, for the Logger of CheckLogs.go: the loggers of
\* SimpleU and a transport that accepts every entry
SimpleChildU == [SimpleU EXCEPT !.statuses = {200}, !.ctxs = {"background"}]

----------------------------------------------------------------------------
(* Specifications *)

\* a new client, its queue empty, its counters zero, no lock held
InitClient ==
    /\ queue = <<>>
    /\ spare = <<>>
    /\ totalLogs = 0
    /\ totalErrors = 0
    /\ lastLog = 0
    /\ validatePayload \in BOOLEAN
    /\ \E T \in SUBSET (Threads \cup CallThreads) : T # {} /\ th = [t \in T |-> Idle0]
    /\ lostEntry = FALSE
    /\ hist = NoHist
    /\ mu = NoLocks
    /\ timers = <<>>
    /\ backoff = NoBackoff

\* a client used directly, without a logger
Init ==
    /\ InitClient
    /\ loggers = <<>>
    /\ heap = <<>>
    /\ simple = <<>>

\* one step of goroutine t
Step(t, U) ==
    \/ LogCall(t, U)
    \/ SendDo(t, U)
    \/ SendIncErr(t)
    \/ SendAdd(t)
    \/ FlushCall(t, U)
    \/ FlushClear(t)
    \/ FlushResend(t, U)
    \/ ClearRetryQueue(t)
    \/ GetRetryQueueStatus(t)

\* the client of newCheckLogsClient(apiKey, nil) shared by the goroutines
InitConc == Init /\ validatePayload = TRUE /\ DOMAIN th = Threads

Next == \E t \in Threads : Step(t, ConcU)

Spec == InitConc /\ [][Next]_vars

\* one goroutine, either setting of ValidatePayload
InitSeq == Init /\ DOMAIN th = {"g1"}

NextSeq == Step("g1", SeqU)

SpecSeq == InitSeq /\ [][NextSeq]_vars

\* one goroutine that logs and flushes, no other caller
NextFlush == Step("g1", FlushU)

SpecFlush == InitSeq /\ [][NextFlush]_vars

\* newCheckLogsLogger(apiKey, o): the root logger and its client
InitLogger(U) ==
    /\ InitClient
    /\ simple = <<>>
    /\ \E o \in U.options :
           LET L == newCheckLogsLogger(o) IN
           /\ validatePayload = L.validatePayload
           /\ heap = IF L.defaultContext.isNil THEN <<>> ELSE <<L.defaultContext.m>>
           /\ loggers = << [parent |-> 0, silent |-> L.silent,
                            consoleOutput |-> L.consoleOutput,
                            enabledLevels |-> L.enabledLevels,
                            source |-> L.source, userID |-> L.userID,
                            defaultContext |-> IF L.defaultContext.isNil THEN 0 ELSE 1,
                            extra |-> L.defaultContext] >>

\* one goroutine using a logger, its descendants and their client
InitLoggerSeq == InitLogger(LogU) /\ DOMAIN th = {"g1"}

NextLogger ==
    \/ LoggerLog("g1", LogU)
    \/ SendDo("g1", LogU)
    \/ SendIncErr("g1")
    \/ SendAdd("g1")
    \/ CreateChild("g1", LogU)
    \/ CreateChildDone("g1")

SpecLogger == InitLoggerSeq /\ [][NextLogger]_vars

\* NewLogger(apiKey, o): a root Logger of CheckLogs.go, used by the
\* goroutines T
InitSimpleOn(T, U) ==
    /\ InitClient
    /\ validatePayload = TRUE
    /\ DOMAIN th = T
    /\ loggers = <<>>
    /\ \E x \in U.soptions :
           /\ heap = IF x.o.defaultContext.isNil THEN <<>> ELSE <<x.o.defaultContext.m>>
           /\ simple = << NewLogger(x.apiKey, x.o, IF x.o.defaultContext.isNil THEN 0 ELSE 1) >>

\* a root Logger of CheckLogs.go, one goroutine
InitSimple == InitSimpleOn({"g1"}, SimpleU)

NextSimple ==
    \/ LoggerCall("g1", SimpleU)
    \/ LoggerDo("g1", SimpleU)
    \/ LoggerAdd("g1")
    \/ LoggerFlushCall("g1", SimpleU)
    \/ LoggerFlushResend("g1", SimpleU)
    \/ LoggerClear("g1")
    \/ LoggerSize("g1")
    \/ LoggerChild("g1", SimpleU)

SpecSimple == InitSimple /\ [][NextSimple]_vars

\* one goroutine creating children and grandchildren of a CheckLogsLogger,
\* or of a Logger of CheckLogs.go, and logging through them
InitChild == (InitLogger(ChildU) /\ DOMAIN th = {"g1"}) \/ InitSimple

NextChild ==
    \/ LoggerLog("g1", ChildU)
    \/ SendDo("g1", ChildU)
    \/ CreateChild("g1", ChildU)
    \/ CreateChildDone("g1")
    \/ LoggerCall("g1", SimpleChildU)
    \/ LoggerDo("g1", SimpleChildU)
    \/ LoggerChild("g1", SimpleChildU)

SpecChild == InitChild /\ [][NextChild]_vars

\* two goroutines creating children of the loggers and logging through them
InitConcLogger == InitLogger(ConcLogU) /\ DOMAIN th = Threads

NextConcLogger ==
    \E t \in Threads :
        \/ LoggerLog(t, ConcLogU)
        \/ SendDo(t, ConcLogU)
        \/ SendIncErr(t)
        \/ SendAdd(t)
        \/ CreateChild(t, ConcLogU)
        \/ CreateChildDone(t)

SpecConcLogger == InitConcLogger /\ [][NextConcLogger]_vars

\* three goroutines sharing one client, each making one log call: on the
\* client, on the root logger, or on a child it has created
InitCalls == InitLogger(CallsU) /\ DOMAIN th = CallThreads

NextCalls ==
    \E t \in CallThreads :
        \/ th[t].op = "none" /\ CreateChild(t, CallsU)
        \/ CreateChildDone(t)
        \/ th[t].op \in {"none", "createChild"} /\ LogCall(t, CallsU)
        \/ th[t].op \in {"none", "createChild"} /\ LoggerLog(t, CallsU)
        \/ SendDo(t, CallsU)
        \/ SendIncErr(t)
        \/ SendAdd(t)

SpecCalls == InitCalls /\ [][NextCalls]_vars

\* the locks: two goroutines on one client that log, flush, clear the queue,
\* read the statistics and the queue size and query the API; or a Logger of
\* CheckLogs.go on which one of them logs, flushes and reads the queue size
InitLocks == InitConc \/ InitSimpleOn(Threads, SimpleLockU)

NextLocks ==
    \/ \E t \in Threads :
           \/ simple = <<>> /\ LogCall(t, LockU)
           \/ SendDo(t, LockU)
           \/ SendIncErr(t)
           \/ SendAdd(t)
           \/ simple = <<>> /\ FlushCall(t, LockU)
           \/ FlushClear(t)
           \/ FlushResend(t, LockU)
           \/ simple = <<>> /\ GetStatsRLock(t)
           \/ GetStatsRate(t)
           \/ GetStatsReturn(t)
           \/ simple = <<>> /\ SizeRLock(t)
           \/ SizeReturn(t)
           \/ simple = <<>> /\ ClearRetryQueue(t)
           \/ simple = <<>> /\ ReadCall(t, LockU)
           \/ ReadDo(t, LockU)
    \/ LoggerCall("g1", SimpleLockU)
    \/ LoggerDo("g1", SimpleLockU)
    \/ LoggerAdd("g1")
    \/ LoggerFlushCall("g1", SimpleLockU)
    \/ LoggerFlushResend("g1", SimpleLockU)
    \/ LoggerSizeRLock("g1")
    \/ LoggerSizeReturn("g1")

SpecLocks == InitLocks /\ [][NextLocks]_vars

\* one goroutine that creates timers on a CheckLogsLogger, or on a Logger of
\* CheckLogs.go, and ends them
InitTimer ==
    \/ InitLogger(TimerU) /\ DOMAIN th = {"g1"}
    \/ InitSimpleOn({"g1"}, SimpleTimerU)

NextTimer ==
    \/ CreateTimer("g1", TimerU)
    \/ EndTimer("g1", TimerU)
    \/ SendDo("g1", TimerU)
    \/ SendIncErr("g1")
    \/ SendAdd("g1")
    \/ LoggerTime("g1", SimpleTimerU)
    \/ LoggerTimerEnd("g1", SimpleTimerU)
    \/ LoggerDo("g1", SimpleTimerU)
    \/ LoggerAdd("g1")

SpecTimer == InitTimer /\ [][NextTimer]_vars

\* one goroutine logging through a root logger built from one of the options
InitOptions == InitLogger(OptionsU) /\ DOMAIN th = {"g1"}

NextOptions ==
    \/ LoggerLog("g1", OptionsU)
    \/ SendDo("g1", OptionsU)
    \/ SendIncErr("g1")
    \/ SendAdd("g1")

SpecOptions == InitOptions /\ [][NextOptions]_vars

\* two goroutines that log and flush on one Logger of CheckLogs.go
InitShared == InitSimpleOn(Threads, SharedU)

NextShared ==
    \E t \in Threads :
        \/ BagCardinality(Waiting) < MaxSharedQueue /\ LoggerCall(t, SharedU)
        \/ LoggerDo(t, SharedU)
        \/ LoggerAdd(t)
        \/ LoggerFlushCall(t, SharedU)
        \/ LoggerFlushResend(t, SharedU)

SpecShared == InitShared /\ [][NextShared]_vars

\* goroutines that log on a client and read from the API through it
NextRead ==
    \E t \in Threads :
        \/ LogCall(t, ReadU)
        \/ SendDo(t, ReadU)
        \/ SendIncErr(t)
        \/ SendAdd(t)
        \/ ReadOpCall(t, ReadU)
        \/ ReadDo(t, ReadU)

SpecRead == InitConc /\ [][NextRead]_vars

\* one goroutine that logs and flushes, on a client or on a Logger of
\* CheckLogs.go; a flush of the client begins only when the sends left to the
\* behaviour cover its resends
InitRound ==
    \/ InitSeq /\ validatePayload = TRUE
    \/ InitSimpleOn({"g1"}, SimpleRoundU)

NextRound ==
    \/ simple = <<>> /\ LogCall("g1", RoundU)
    \/ SendDo("g1", RoundU)
    \/ SendIncErr("g1")
    \/ SendAdd("g1")
    \/ simple = <<>> /\ totalLogs + Len(queue) <= MaxRoundLogs /\ FlushCall("g1", RoundU)
    \/ FlushClear("g1")
    \/ FlushResend("g1", RoundU)
    \/ LoggerCall("g1", SimpleRoundU)
    \/ LoggerDo("g1", SimpleRoundU)
    \/ LoggerAdd("g1")
    \/ LoggerFlushCall("g1", SimpleRoundU)
    \/ LoggerFlushResend("g1", SimpleRoundU)

\* the goroutine, when it can take a step, takes one in the end
SpecRound == InitRound /\ [][NextRound]_vars /\ WF_vars(NextRound)

\* the client shared by the goroutines, the history of its entries kept
InitLive ==
    /\ queue = <<>>
    /\ spare = <<>>
    /\ totalLogs = 0
    /\ totalErrors = 0
    /\ lastLog = 0
    /\ validatePayload = TRUE
    /\ th = [t \in Threads |-> Idle0]
    /\ lostEntry = FALSE
    /\ hist = [NoHist EXCEPT !.on = TRUE]
    /\ mu = NoLocks
    /\ timers = <<>>
    /\ backoff = NoBackoff
    /\ loggers = <<>>
    /\ heap = <<>>
    /\ simple = <<>>

\* a goroutine that logs and flushes; sends fail until MaxLiveErrs failures
\* are counted and succeed from then on; ClearRetryQueue is never called
StepLive(t) ==
    \/ LogCall(t, LiveLogU)
    \/ totalErrors < MaxLiveErrs /\ SendDo(t, LiveU)
    \/ SendDo(t, LiveOkU)
    \/ SendIncErr(t)
    \/ SendAdd(t)
    \/ FlushCall(t, LiveU)
    \/ FlushClear(t)
    \/ FlushResend(t, LiveU)

NextLive == \E t \in Threads : StepLive(t)

\* every goroutine that can take a step takes one in the end (the Go
\* scheduler preempts); a goroutine that has nothing else to do flushes again
SpecLive == InitLive /\ [][NextLive]_vars /\ \A t \in Threads : WF_vars(StepLive(t))

\* the validator alone, applied to every input
NextV == ValidateCall("g1", VU)

SpecV == InitSeq /\ [][NextV]_vars

----------------------------------------------------------------------------
(* Properties *)

\* a sendLog of frame r has returned and no other has begun since
SendReturned(r) ==
    r.op \in {"Log", "Flush"} /\ r.pc \in {"idle", "send"} /\ r.err # NoErr

\* the Log call of frame r has returned
LogReturned(r) == r.op = "Log" /\ r.pc = "idle"

\* the Flush call of frame r has returned
FlushReturned(r) == r.op = "Flush" /\ r.pc = "idle"

\* C1: a Log call answered with a status >= 400 returns an APIError carrying
\* that status; with 429 or >= 500 it has appended exactly one copy of its
\* entry to the retry queue, with any other status the queue is as it was.
C1_StatusDecidesRequeue ==
    \A t \in DOMAIN th :
        LET r == th[t] IN
        (LogReturned(r) /\ r.resp.kind = "response" /\ r.resp.status >= 400) =>
            /\ r.err.type = "APIError"
            /\ r.err.status = r.resp.status
            /\ IF r.resp.status = 429 \/ r.resp.status >= 500
               THEN r.eff.adds = 1 /\ queue = Append(r.pre.queue, r.data)
               ELSE r.eff.adds = 0 /\ queue = r.pre.queue

\* a Log answered 429 has appended its entry behind an entry already queued
C1_Witness ==
    \E t \in DOMAIN th :
        LET r == th[t] IN
        /\ LogReturned(r)
        /\ r.resp = [kind |-> "response", status |-> 429]
        /\ Len(r.pre.queue) = 1
        /\ queue = Append(r.pre.queue, r.data)

\* C2: whenever Log returns a NetworkError, the entry has been appended to
\* the retry queue by that call.
C2_NetworkErrorRequeued ==
    \A t \in DOMAIN th :
        LET r == th[t] IN
        (LogReturned(r) /\ r.err.type = "NetworkError") =>
            r.eff.adds = 1 /\ queue = Append(r.pre.queue, r.data)

\* C3: no entry is discarded by a Flush without being in the snapshot of a
\* Flush (Flush's read and clear of the queue act as one step).
C3_FlushLosesNothing == lostEntry = FALSE

\* the resends of a returned Flush that succeeded
Succeeded(r) == {i \in 1..Len(r.errs) : r.errs[i].e = Nil}

\* an error after which sendLog has requeued the entry
RetriablyFailed(e) ==
    \/ e.type = "NetworkError" /\ e.message = "request failed"
    \/ e.type = "APIError" /\ (e.status = 429 \/ e.status >= 500)

\* the entries of a returned Flush whose resend failed retriably, in order
FailedRetriably(r) ==
    LET S == SelectSeq(r.errs, LAMBDA x : RetriablyFailed(x.e))
    IN  [i \in 1..Len(S) |-> S[i].d]

\* C4 as stated: with no concurrent operation, a Flush of K entries of which
\* M resends succeed leaves K - M entries queued, and returns true exactly
\* when K - M = 0.
C4_FlushLeavesAllFailed ==
    \A t \in DOMAIN th :
        LET r == th[t]
            K == Len(r.errs)
            M == Cardinality(Succeeded(r))
        IN  FlushReturned(r) =>
                Len(queue) = K - M /\ r.success = (K - M = 0)

\* C4 as amended: such a Flush leaves queued exactly the entries whose resend
\* failed retriably (the HTTP call failed, or answered 429 or >= 500), in
\* order, which are at most K - M; it returns true exactly when K - M = 0.
C4_FlushLeavesRetriable ==
    \A t \in DOMAIN th :
        LET r == th[t]
            K == Len(r.errs)
            M == Cardinality(Succeeded(r))
        IN  FlushReturned(r) =>
                /\ queue = FailedRetriably(r)
                /\ Len(queue) <= K - M
                /\ r.success = (K - M = 0)

\* a Flush of two entries: one resend succeeded, the other failed retriably
C4_Witness ==
    \E t \in DOMAIN th :
        LET r == th[t] IN
        /\ FlushReturned(r)
        /\ Len(r.errs) = 2
        /\ Cardinality(Succeeded(r)) = 1
        /\ Len(queue) = 1
        /\ r.success = FALSE

C7_BadMessageRejected ==
    \A t \in DOMAIN th :
        LET r == th[t] IN
        (LogReturned(r) /\ validatePayload
            /\ (r.data.message = 0 \/ r.data.message > 1024)) =>
            /\ r.err.type = "ValidationError"
            /\ r.err.field = "message"
            /\ r.resp = NoResp
            /\ r.eff = ZeroEff
            /\ queue = r.pre.queue
            /\ totalLogs = r.pre.totalLogs
            /\ totalErrors = r.pre.totalErrors

\* a Log of a 1025-byte message was rejected while an entry was queued
C7_Witness ==
    \E t \in DOMAIN th :
        LET r == th[t] IN
        /\ LogReturned(r)
        /\ validatePayload
        /\ r.data.message = 1025
        /\ r.err.type = "ValidationError"
        /\ Len(queue) = 1
        /\ totalLogs = 1

\* the serialized context of entry d is longer than 5000 bytes
ContextTooLong(d) == ~d.context.isNil /\ ContextBytes(d.context.m) > 5000

\* message and source of entry d pass their checks
MessageAndSourceOK(d) ==
    d.message > 0 /\ d.message <= 1024 /\ d.source <= 100

\* C8 as stated: the level is checked before the context, so an entry with
\* a valid message and source, an invalid level and a context of more than
\* 5000 bytes yields a ValidationError on field "level".
C8_LevelBeforeContext ==
    \A t \in DOMAIN th :
        LET r == th[t] IN
        (r.op = "validateLogData" /\ validatePayload /\ MessageAndSourceOK(r.data)
            /\ r.data.level \notin ValidLevels /\ ContextTooLong(r.data)) =>
            r.err.type = "ValidationError" /\ r.err.field = "level"

\* C8 as amended: the checks are applied in the order message presence,
\* message length, source length, serialized-context length, level
\* membership, and the first violated one is reported; such an entry yields
\* a ValidationError on field "context".
C8_ContextBeforeLevel ==
    \A t \in DOMAIN th :
        LET r == th[t]
            d == r.data
            want == IF d.message = 0 \/ d.message > 1024 THEN "message"
                    ELSE IF d.source > 100 THEN "source"
                    ELSE IF ContextTooLong(d) THEN "context"
                    ELSE IF d.level \notin ValidLevels THEN "level"
                    ELSE ""
        IN  (r.op = "validateLogData" /\ validatePayload) =>
                IF want = "" THEN r.err = Nil
                ELSE /\ r.err.type = "ValidationError"
                     /\ r.err.field = want
                     /\ (d.message = 0) = (r.err.message = "message is required")

\* the validator has reported the context of an entry whose level is invalid too
C8_Witness ==
    \E t \in DOMAIN th :
        LET r == th[t] IN
        /\ r.op = "validateLogData"
        /\ validatePayload
        /\ MessageAndSourceOK(r.data)
        /\ r.data.level \notin ValidLevels
        /\ ContextTooLong(r.data)
        /\ r.err.field = "context"

\* C9 as stated: with validatePayload off, a Log never returns a
\* ValidationError and issues the network call, whatever the entry.
C9_NoValidationThenNetwork ==
    \A t \in DOMAIN th :
        LET r == th[t] IN
        (LogReturned(r) /\ ~validatePayload) =>
            r.err.type # "ValidationError" /\ r.eff.nets = 1

\* C9 as amended: with validatePayload off, a Log never returns a
\* ValidationError and goes on to the send path (totalLogs is incremented),
\* whatever the entry; it issues the network call unless the entry cannot
\* be serialized or the request cannot be built.
C9_NoValidationThenSend ==
    \A t \in DOMAIN th :
        LET r == th[t] IN
        (LogReturned(r) /\ ~validatePayload) =>
            /\ r.err.type # "ValidationError"
            /\ r.eff.logs = 1
            /\ totalLogs = r.pre.totalLogs + 1
            /\ (r.eff.nets = 1) = (Marshalable(r.data) /\ r.ctx # "nil")
            /\ (r.eff.nets = 1) = (r.resp # NoResp)

\* with validatePayload off, an entry that breaks every check was sent
C9_Witness ==
    \E t \in DOMAIN th :
        LET r == th[t] IN
        /\ LogReturned(r)
        /\ ~validatePayload
        /\ r.data.message = 0
        /\ r.data.source = 101
        /\ r.data.level \notin ValidLevels
        /\ ContextTooLong(r.data)
        /\ r.eff.nets = 1
        /\ r.err = Nil

\* C10: every sendLog that passes validation, a resend of Flush included,
\* increments totalLogs by one, and totalErrors by one exactly when it
\* returns an error; answered 500, it adds one to totalErrors and one entry
\* to the retry queue.
C10_CountersPerAttempt ==
    \A t \in DOMAIN th :
        LET r == th[t] IN
        (SendReturned(r) /\ r.err.type # "ValidationError") =>
            /\ r.eff.logs = 1
            /\ totalLogs = r.pre.totalLogs + 1
            /\ r.eff.errs = (IF r.err = Nil THEN 0 ELSE 1)
            /\ totalErrors = r.pre.totalErrors + r.eff.errs
            /\ r.resp = [kind |-> "response", status |-> 500] =>
                  /\ totalErrors = r.pre.totalErrors + 1
                  /\ Len(queue) = Len(r.pre.queue) + 1

\* a resend of Flush was answered 500 and counted
C10_Witness ==
    \E t \in DOMAIN th :
        LET r == th[t] IN
        /\ FlushReturned(r)
        /\ r.resp = [kind |-> "response", status |-> 500]
        /\ r.err = APIError(500)
        /\ totalLogs = 2
        /\ totalErrors = 2
        /\ queue = <<r.data>>

\* the log call of frame r on a CheckLogsLogger has returned
LoggerReturned(r) == r.op = "LoggerLog" /\ r.pc = "idle" /\ r.lg \in 1..Len(loggers)

\* C11: an info call on a logger that is not silent and has the info level
\* enabled, answered with a status below 400, returns no error, adds one to
\* totalLogs and leaves totalErrors and the retry queue as they were.
C11_InfoDelivered ==
    \A t \in DOMAIN th :
        LET r == th[t] IN
        (/\ LoggerReturned(r)
         /\ r.arg.level = "info"
         /\ ~loggers[r.lg].silent
         /\ "info" \in loggers[r.lg].enabledLevels
         /\ r.resp.kind = "response" /\ r.resp.status < 400) =>
            /\ r.err = Nil
            /\ r.eff = [ZeroEff EXCEPT !.logs = 1, !.nets = 1]
            /\ totalLogs = r.pre.totalLogs + 1
            /\ totalErrors = r.pre.totalErrors
            /\ queue = r.pre.queue

\* an info call answered 399 was delivered while an entry was queued
C11_Witness ==
    \E t \in DOMAIN th :
        LET r == th[t] IN
        /\ LoggerReturned(r)
        /\ r.arg.level = "info"
        /\ r.resp = [kind |-> "response", status |-> 399]
        /\ r.err = Nil
        /\ r.echo = 1
        /\ Len(queue) = 1
        /\ totalLogs = 2
        /\ totalErrors = 1

\* C12: every Log call that fails with a NetworkError leaves the retry queue
\* one entry longer than it found it, whatever the queue held (so N such
\* calls in a row from an empty queue leave N entries); GetRetryQueueStatus
\* reports the length of the queue; ClearRetryQueue empties the queue with
\* no network call and no change to the statistics.
C12_FailuresFillQueue ==
    /\ [](\A t \in DOMAIN th :
            LET r == th[t] IN
            /\ (LogReturned(r) /\ r.err.type = "NetworkError") =>
                   Len(queue) = Len(r.pre.queue) + 1
            /\ (r.op = "GetRetryQueueStatus" /\ r.pc = "idle") => r.count = Len(queue))
    /\ [][\A t \in DOMAIN th :
            ClearRetryQueue(t) =>
                /\ queue' = <<>>
                /\ th'[t].eff = ZeroEff
                /\ UNCHANGED <<totalLogs, totalErrors, lastLog>>]_vars

\* C13: a child logger has the retry queue of its parent: what a failing log
\* call through one of them enqueues is in the queue seen, flushed and
\* cleared through the other. (The CheckLogsLogger instances of one client
\* have the one queue and the one pair of counters of that client.)
C13_ChildSharesQueue ==
    \A l \in 1..Len(simple) :
        simple[l].parent # 0 => simple[l].retryQueue = simple[simple[l].parent].retryQueue

\* the keys of a context map that may be nil
Keys(c) == IF c.isNil THEN {} ELSE DOMAIN c.m

\* the keys logger l of the family ls was created with, and its ancestors'
RECURSIVE InheritedKeys(_, _)
InheritedKeys(ls, l) ==
    Keys(ls[l].extra) \cup (IF ls[l].parent = 0 THEN {} ELSE InheritedKeys(ls, ls[l].parent))

\* the value of key k given by the nearest of logger l and its ancestors
\* that was created with k
RECURSIVE Inherited(_, _, _)
Inherited(ls, l, k) ==
    IF k \in Keys(ls[l].extra) THEN ls[l].extra.m[k]
    ELSE Inherited(ls, ls[l].parent, k)

\* frame r holds an entry that a log call on a logger has built
Emitted(r) ==
    /\ r.op \in {"LoggerLog", "Logger.log"}
    /\ r.lg # 0
    /\ r.data.timestamp # 0

\* the loggers frame r's logger belongs to
Family(r) == IF r.op = "LoggerLog" THEN loggers ELSE simple

\* the keys of the call-site context of frame r
CallKeys(r) ==
    Keys(r.arg.context) \cup UNION {Keys(r.arg.contexts[i]) : i \in 1..Len(r.arg.contexts)}

\* C14: in the context of an entry emitted through a logger, a key the call
\* site does not give carries the value of the nearest logger, from that
\* logger up to the root, that was created with the key (child over parent
\* over grandparent, at any depth), and no key comes from elsewhere.
C14_ChildContextOverlay ==
    \A t \in DOMAIN th :
        LET r == th[t] IN
        Emitted(r) =>
            /\ \A k \in InheritedKeys(Family(r), r.lg) \ CallKeys(r) :
                   /\ k \in Keys(r.data.context)
                   /\ r.data.context.m[k] = Inherited(Family(r), r.lg, k)
            /\ Keys(r.data.context) \subseteq InheritedKeys(Family(r), r.lg) \cup CallKeys(r)

\* a grandchild created with k, of a child created with e, of a root created
\* with k and d, has emitted k from itself, e from the child, d from the root
C14_Witness ==
    \E t \in DOMAIN th :
        LET r == th[t]
            ls == Family(r)
        IN  /\ Emitted(r)
            /\ r.arg.context.isNil /\ r.arg.contexts = <<>>
            /\ ls[r.lg].parent # 0
            /\ ls[ls[r.lg].parent].parent # 0
            /\ r.data.context.m = [k \in {"k", "d", "e"} |->
                   IF k = "d" THEN Val("root", 3) ELSE Val("child", 3)]
            /\ Keys(ls[r.lg].extra) = {"k"}

\* C15: no step changes a logger that exists (its parent, source, userID,
\* enabled levels, silent and console settings, and which map its
\* defaultContext is) nor the content of that map, whichever goroutine
\* takes it (createChild, log, the steps of sendLog); and no
\* two loggers have the same map, so that a write through one could not
\* show in another.
C15_LoggersImmutable ==
    /\ [](\A l1, l2 \in 1..Len(loggers) :
            (l1 # l2 /\ loggers[l1].defaultContext # 0) =>
                loggers[l1].defaultContext # loggers[l2].defaultContext)
    /\ [][\A l \in 1..Len(loggers) :
            /\ l \in 1..Len(loggers')
            /\ loggers'[l] = loggers[l]
            /\ Deref(loggers[l].defaultContext)' = Deref(loggers[l].defaultContext)]_vars

\* one goroutine has made a child of the root while the other is making
\* one, with another context, of the same root
C15_Witness ==
    /\ th["g1"].op = "createChild" /\ th["g1"].pc = "idle"
    /\ th["g2"].op = "createChild" /\ th["g2"].pc = "child"
    /\ th["g1"].lg = 1 /\ th["g2"].lg = 1
    /\ th["g1"].arg.context # th["g2"].arg.context
    /\ Len(loggers) = 2
    /\ Deref(loggers[1].defaultContext) = OneKey("k", "root")
    /\ Deref(loggers[2].defaultContext) # Deref(loggers[1].defaultContext)

\* the log call of frame r on a logger of either kind has returned
AnyLogReturned(r) == r.op \in {"LoggerLog", "Logger.log"} /\ r.pc = "idle" /\ r.lg # 0

\* the logger of frame r is silent, or has the level of the call disabled
Filtered(r) ==
    IF r.op = "LoggerLog"
    THEN loggers[r.lg].silent \/ r.arg.level \notin loggers[r.lg].enabledLevels
    ELSE simple[r.lg].silent

\* C16: a log call on a logger that is silent, or that has the level
\* disabled, returns nil whatever the message, having written no console
\* line, issued no network call, and changed neither the counters nor the
\* retry queue.
C16_FilteredCallDoesNothing ==
    \A t \in DOMAIN th :
        LET r == th[t] IN
        (AnyLogReturned(r) /\ Filtered(r)) =>
            /\ r.err = Nil
            /\ r.echo = 0 /\ r.diag = 0
            /\ r.resp = NoResp
            /\ r.eff = ZeroEff

\* the call-site maps of frame r, in the order the call gives them
CallMaps(r) == IF r.op = "LoggerLog" THEN <<r.arg.context>> ELSE r.arg.contexts

\* the index of the last call-site map of frame r that has key k
LastWith(r, k) ==
    CHOOSE i \in 1..Len(CallMaps(r)) :
        /\ k \in Keys(CallMaps(r)[i])
        /\ \A j \in (i + 1)..Len(CallMaps(r)) : k \notin Keys(CallMaps(r)[j])

\* the default context of the logger of frame r
DefaultOf(r) ==
    Deref(IF r.op = "LoggerLog" THEN loggers[r.lg].defaultContext ELSE simple[r.lg].context)

\* C17: the context of an entry emitted through a logger has the keys of
\* the logger's default context and of the call-site maps and no other; a
\* key the call site gives carries the value of the last call-site map that
\* has it, whether or not the default context has it too; a key only the
\* default context has carries the default value.
C17_CallSiteOverlay ==
    \A t \in DOMAIN th :
        LET r == th[t] IN
        Emitted(r) =>
            /\ Keys(r.data.context) = Keys(DefaultOf(r)) \cup CallKeys(r)
            /\ \A k \in CallKeys(r) :
                   r.data.context.m[k] = CallMaps(r)[LastWith(r, k)].m[k]
            /\ \A k \in Keys(DefaultOf(r)) \ CallKeys(r) :
                   r.data.context.m[k] = DefaultOf(r).m[k]

\* a logger whose default context has k and d has emitted an entry from a
\* call with two maps, both with k and the later one with m: k of the later
\* map, m of the call, d of the default context
C17_Witness ==
    \E t \in DOMAIN th :
        LET r == th[t] IN
        /\ Emitted(r)
        /\ Len(CallMaps(r)) = 2
        /\ {"k", "d"} \subseteq Keys(DefaultOf(r))
        /\ Keys(r.data.context) = {"k", "m", "d"}
        /\ r.data.context.m["k"] = Val("later", 3)
        /\ r.data.context.m["m"] = Val("call", 3)
        /\ r.data.context.m["d"] = Val("root", 3)

\* a CheckLogsLogger whose default context has k and d has emitted an entry
\* from a call whose context has k and m
C17_WitnessOneMap ==
    \E t \in DOMAIN th :
        LET r == th[t] IN
        /\ Emitted(r) /\ r.op = "LoggerLog"
        /\ {"k", "d"} \subseteq Keys(DefaultOf(r))
        /\ Keys(r.arg.context) = {"k", "m"}
        /\ Keys(r.data.context) = {"k", "m", "d"}
        /\ r.data.context.m["k"] = r.arg.context.m["k"]
        /\ r.data.context.m["d"] = DefaultOf(r).m["d"]

\* the log call of frame r, on the client or on a logger, has returned
CallReturned(r) == r.op \in {"Log", "LoggerLog"} /\ r.pc = "idle"

\* the goroutines whose returned call satisfies P
Calls(P(_)) == {t \in DOMAIN th : CallReturned(th[t]) /\ P(th[t])}

PassedValidation(r) == r.err.type # "ValidationError"

Failed(r) == PassedValidation(r) /\ r.err # Nil

\* the call failed in a retriable way: a NetworkError, or an APIError of
\* status 429 or of status 500 and above
FailedRetriablyCall(r) ==
    \/ r.err.type = "NetworkError"
    \/ r.err.type = "APIError" /\ (r.err.status = 429 \/ r.err.status >= 500)

\* C18: when goroutines have logged concurrently on one client, directly
\* and through loggers, and every call has returned, totalLogs is the number
\* of calls that passed validation, totalErrors the number of those that
\* failed, and the retry queue has one entry for each call that failed
\* retriably and no other.
C18_NoLostUpdate ==
    (\A t \in DOMAIN th : CallReturned(th[t])) =>
        /\ totalLogs = Cardinality(Calls(PassedValidation))
        /\ totalErrors = Cardinality(Calls(Failed))
        /\ Len(queue) = Cardinality(Calls(FailedRetriablyCall))
        /\ \E f \in [1..Len(queue) -> Calls(FailedRetriablyCall)] :
               /\ \A i, j \in 1..Len(queue) : i # j => f[i] # f[j]
               /\ \A i \in 1..Len(queue) : queue[i] = th[f[i]].data

\* the call failed in a way after which sendLog requeues
RequeuedCall(r) ==
    FailedRetriablyCall(r) /\ r.err # NetworkError("failed to create request")

\* C18 for the failures sendLog does requeue: the counters as in C18, and
\* one queue entry for each call that failed at the transport or was
\* answered 429 or 500 and above
C18_NoLostUpdateRequeued ==
    (\A t \in DOMAIN th : CallReturned(th[t])) =>
        /\ totalLogs = Cardinality(Calls(PassedValidation))
        /\ totalErrors = Cardinality(Calls(Failed))
        /\ Len(queue) = Cardinality(Calls(RequeuedCall))
        /\ \E f \in [1..Len(queue) -> Calls(RequeuedCall)] :
               /\ \A i, j \in 1..Len(queue) : i # j => f[i] # f[j]
               /\ \A i \in 1..Len(queue) : queue[i] = th[f[i]].data

\* goroutine t is inside the network call of sendLog (from Log, from a
\* logger or from flush), of a read API, or of Logger.sendLog
InNetworkCall(t) == th[t].pc \in {"do", "rdo", "ldo"}

\* goroutine t holds the mutex of some Logger of CheckLogs.go
HoldsLoggerMutex(t) == \E l \in 1..Len(simple) : \E h \in simple[l].mutex : h.who = t

\* C19: a goroutine inside the network call of Log, of flush, of a read API
\* or of FlushRetryQueue holds neither retryQueue.mutex nor
\* statsManager.mutex nor a Logger's mutex, so that the locks held while it
\* waits are held by goroutines that are not waiting for the network.
C19_NoLockAcrossNetwork ==
    \A t \in DOMAIN th :
        InNetworkCall(t) => HeldBy(t) = {} /\ ~HoldsLoggerMutex(t)

\* one goroutine is inside the network call of a resend of flush while the
\* other holds the read lock of the statistics
C19_Witness ==
    \E t, u \in DOMAIN th :
        /\ t # u
        /\ InNetworkCall(t) /\ th[t].op = "Flush"
        /\ HeldBy(t) = {}
        /\ HeldBy(u) = {"stats"}

\* goroutine t takes the step of GetStats that returns
GetStatsReturns(t) == th[t].pc = "stats" /\ th'[t].pc = "idle"

\* C20: the Stats that GetStats returns has the error rate
\* 100 * totalErrors / totalLogs, and 0 when totalLogs is 0, of the two
\* counters as they are together at the instant it returns, and that
\* totalLogs, while other goroutines increment the counters.
C20_ErrorRateOfSnapshot ==
    [][\A t \in DOMAIN th :
          GetStatsReturns(t) =>
              LET st == th'[t].stats IN
              /\ st.totalLogs = totalLogs
              /\ st.errorRate.den > 0
              /\ totalLogs = 0 => st.errorRate.num = 0
              /\ totalLogs > 0 =>
                     st.errorRate.num * totalLogs = 100 * totalErrors * st.errorRate.den]_vars

\* GetStats has returned the rate 50 of one error in two logs, while the
\* other goroutine was about to count the error of the second
C20_Witness ==
    \E t, u \in DOMAIN th :
        /\ th[t].op = "GetStats" /\ th[t].pc = "idle"
        /\ th[t].stats.totalLogs = 2
        /\ th[t].stats.errorRate = [num |-> 100, den |-> 2]
        /\ th[u].pc = "incErr"
        /\ totalLogs = 2 /\ totalErrors = 1

\* the End of a timer, of either kind of logger, has returned in frame r
EndReturned(r) == r.op \in {"endTimer", "Timer.End"} /\ r.pc = "idle"

\* the logger of the timer of frame r drops info entries before building
\* them
TimerFiltered(r) ==
    r.op = "endTimer" /\ (loggers[r.lg].silent \/ "info" \notin loggers[r.lg].enabledLevels)

\* the one call-site context of frame r
CallContext(r) == IF r.op = "endTimer" THEN r.arg.context ELSE r.arg.contexts[1]

\* End has called Info on the timer's logger with the message embedding the
\* duration r.count and the context {operation, duration_ms}
EndCalledInfo(r) ==
    LET tm == timers[r.timer]
        c == CallContext(r)
    IN  /\ r.lg = tm.lg
        /\ r.count >= 0
        /\ r.arg.level = "info"
        /\ r.arg.message = tm.message + 14 + DurationBytes(r.count)
        /\ r.op = "Timer.End" => Len(r.arg.contexts) = 1
        /\ Keys(c) = {"operation", "duration_ms"}
        /\ c.m["operation"] = Val(tm.name, 4)
        /\ c.m["duration_ms"].n * TicksPerMs <= r.count
        /\ r.count < (c.m["duration_ms"].n + 1) * TicksPerMs

\* the logger has built one info entry from the call of frame r and passed
\* it to its sendLog, once
EndEmitted(r) ==
    /\ r.data.timestamp # 0
    /\ r.data.level = "info"
    /\ r.data.message = r.arg.message
    /\ {"operation", "duration_ms"} \subseteq Keys(r.data.context)
    /\ \A k \in {"operation", "duration_ms"} : r.data.context.m[k] = CallContext(r).m[k]
    /\ r.eff.logs <= 1 /\ r.eff.nets <= 1 /\ r.eff.adds <= 1

C21_WitnessLogger ==
    \E t \in DOMAIN th :
        LET r == th[t] IN
        /\ EndReturned(r) /\ r.op = "Timer.End"
        /\ r.count = 1
        /\ r.data.timestamp # 0
        /\ r.data.context.m["duration_ms"] = IntVal(0)
        /\ r.eff.nets = 1

\* C22: within one log call the entry is validated before the console line
\* is written, before the request is sent and before anything is queued: a
\* call that returns a ValidationError has written no console line, issued
\* no request and queued nothing.
C22_ValidateBeforeEcho ==
    \A t \in DOMAIN th :
        LET r == th[t] IN
        (AnyLogReturned(r) /\ r.err.type = "ValidationError") =>
            /\ r.echo = 0
            /\ r.resp = NoResp
            /\ r.eff.adds = 0

\* frame r is inside a flush of the client or a FlushRetryQueue of a Logger
InFlush(r) == r.op \in {"Flush", "FlushRetryQueue"} /\ r.pc # "idle"

\* the retry queue of Logger l of CheckLogs.go (0: that of the client)
QueueAt(l) == IF simple # <<>> /\ l # 0 THEN simple[l].retryQueue ELSE queue

\* the retry queue the call of frame r works on
QueueOf(r) == QueueAt(r.lg)

\* C23: the snapshot a flush has taken holds the entries the queue had when
\* it was taken, and no later step (the Clear of that flush, an Add by its
\* resends or by another goroutine, a ClearRetryQueue) changes its length,
\* its order or its entries as the flush reads them.
C23_SnapshotIndependent ==
    [][\A t \in DOMAIN th :
          /\ (th[t].pc = "idle" /\ InFlush(th'[t])) =>
                 Snapshot(th[t])' = QueueOf(th'[t])
          /\ (InFlush(th[t]) /\ InFlush(th'[t])) =>
                 Snapshot(th[t])' = Snapshot(th[t])]_vars

\* a flush is resending the two entries of its snapshot while the queue,
\* emptied by it, has got a different entry in the place the first one had
C23_Witness ==
    \E t \in DOMAIN th :
        LET r == th[t] IN
        /\ InFlush(r)
        /\ r.idx >= 1
        /\ Len(r.snapshot) = 2
        /\ Snapshot(r) = r.snapshot
        /\ Len(QueueOf(r)) >= 1
        /\ QueueOf(r)[1] # r.snapshot[1]

\* goroutine t takes a step of a reading call
ReadStep(t) ==
    /\ th'[t] # th[t]
    /\ \/ th[t].pc = "idle" /\ th'[t].op \in ReadOps
       \/ th[t].pc = "rdo"

\* C24: no step of getLogs, getStats, getSummary, getErrorRate, getTrend or
\* getPeakDay changes the retry queue or the statistics counters, whatever
\* the call ends with: success, a NetworkError, an APIError of any status
\* (429 and 500 included) or a body that does not decode.
C24_ReadsAreReadOnly ==
    [][\A t \in DOMAIN th :
          ReadStep(t) => UNCHANGED <<queue, spare, totalLogs, totalErrors, lastLog>>]_vars

\* a reading call was answered 429 on a client that has one entry queued and
\* one error counted
C24_Witness ==
    \E t \in DOMAIN th :
        LET r == th[t] IN
        /\ r.op \in ReadOps
        /\ r.pc = "idle"
        /\ r.err = APIError(429)
        /\ r.eff.nets = 1
        /\ Len(queue) = 1
        /\ totalLogs = 1
        /\ totalErrors = 1

\* C25: a log call on a silent Logger of CheckLogs.go issues no request and
\* leaves the retry queue as it was, and, when ConsoleOutput is set and the
\* entry is valid, has written its console line.
C25_SilentIsConsoleOnly ==
    \A t \in DOMAIN th :
        LET r == th[t] IN
        (r.op = "Logger.log" /\ r.pc = "idle" /\ r.lg # 0 /\ simple[r.lg].silent) =>
            /\ r.resp = NoResp
            /\ r.eff.nets = 0
            /\ r.eff.adds = 0
            /\ (simple[r.lg].consoleOutput /\ r.err.type # "ValidationError") => r.echo = 1

\* C26: when sends fail only finitely often, ClearRetryQueue is not called
\* and the goroutines go on flushing, then from some point on the retry
\* queue is empty and every entry that was ever added to it has been
\* accepted by the endpoint.
C26_EventuallyDelivered ==
    <>[](queue = <<>> /\ hist.enqueued \subseteq hist.delivered)

\* the entries of the resends recorded in errs that failed
FailedThisRound(errs) == {errs[i].d : i \in {j \in 1..Len(errs) : errs[j].e # Nil}}

\* the flush of goroutine t returns in this step, having called sendLog once
\* for each entry of its snapshot, in order, and leaving in the queue only
\* entries whose resend failed in this flush
RoundDone(t) ==
    LET r == th[t]
        r2 == th'[t]
        q2 == QueueOf(th[t])'
    IN  (InFlush(r) /\ ~InFlush(r2)) =>
            /\ Len(r2.errs) = Len(Snapshot(r))
            /\ \A i \in 1..Len(r2.errs) : r2.errs[i].d = Snapshot(r)[i]
            /\ \A j \in 1..Len(q2) : q2[j] \in FailedThisRound(r2.errs)
            /\ Len(q2) <= Len(r2.errs) - Cardinality(Succeeded(r2))

\* C27: a flush calls sendLog exactly once for each entry of its snapshot,
\* in order, whatever the resends end with, and then returns: a flush that
\* has begun ends; with no other caller, the queue it leaves holds only
\* entries whose resend failed in this flush.
C27_OneRoundThenEnds ==
    /\ [][RoundDone("g1")]_vars
    /\ (InFlush(th["g1"]) ~> ~InFlush(th["g1"]))

\* a flush of two entries has returned with both resends failed and both
\* entries queued again
C27_Witness ==
    LET r == th["g1"] IN
    /\ r.op \in {"Flush", "FlushRetryQueue"}
    /\ r.pc = "idle"
    /\ Len(r.errs) = 2
    /\ Succeeded(r) = {}
    /\ Len(QueueOf(r)) = 2
    /\ QueueOf(r)[1] # QueueOf(r)[2]

\* the strictly increasing maps from 1..n into 1..k
Increasing(n, k) ==
    {f \in [1..n -> 1..k] : \A i, j \in 1..n : i < j => f[i] < f[j]}

\* in this step of goroutine t every queue is as it was, or is emptied, or
\* keeps its entries in their places and gets at its end the entry whose
\* send on it just failed
FifoStep(t) ==
    \A l \in 0..Len(simple) :
        LET q == QueueAt(l)
            q2 == QueueAt(l)'
        IN  \/ q2 = q
            \/ q2 = <<>>
            \/ /\ th[t].pc \in {"add", "ladd"}
               /\ QueueOf(th[t]) = q
               /\ q2 = Append(q, th[t].data)

\* the flush of goroutine t returns in this step, having resent the entries
\* of its snapshot in their order, and the queue holds entries whose resend
\* failed, in the order they had in the snapshot
FifoRound(t) ==
    LET r == th[t]
        r2 == th'[t]
        q2 == QueueOf(th[t])'
        K == Len(Snapshot(r))
    IN  (InFlush(r) /\ ~InFlush(r2)) =>
            /\ [i \in 1..Len(r2.errs) |-> r2.errs[i].d] = Snapshot(r)
            /\ \E f \in Increasing(Len(q2), K) :
                   \A j \in 1..Len(q2) :
                       q2[j] = Snapshot(r)[f[j]] /\ r2.errs[f[j]].e # Nil

\* C28: the retry queue is first in, first out: a failed send puts its entry
\* behind the entries already queued, a flush resends the entries in the
\* order of the queue, and the entries that fail again are queued in the
\* order they had before the flush.
C28_Fifo ==
    [][FifoStep("g1") /\ FifoRound("g1")]_vars

\* a flush of the client has resent two different entries, both resends
\* failed, and the queue holds the two in the order they had
C28_Witness ==
    LET r == th["g1"] IN
    /\ FlushReturned(r)
    /\ Len(r.errs) = 2
    /\ r.errs[1].d # r.errs[2].d
    /\ queue = <<r.errs[1].d, r.errs[2].d>>

\* every entry in the retry queue passes the validator and has a timestamp
QueueValid ==
    \A i \in 1..Len(queue) :
        validateLogData(TRUE, queue[i]) = Nil /\ queue[i].timestamp # 0

\* goroutine t's flush resends an entry in this step: sendLog takes it as it
\* is in the snapshot, timestamp included, and does not reject it
ResendAsQueued(t) ==
    (th[t].op = "Flush" /\ th[t].pc = "send" /\ th'[t] # th[t]) =>
        /\ th'[t].data = Snapshot(th[t])[th[t].idx]
        /\ th'[t].err.type # "ValidationError"

\* C29: on a client with validatePayload enabled, every entry in the retry
\* queue satisfies the validator and has a non-zero timestamp in every
\* state, no resend of a flush returns a ValidationError, and a resent
\* entry has the timestamp it was queued with.
C29_QueuedEntriesValid ==
    /\ [](validatePayload => QueueValid)
    /\ [][validatePayload => ResendAsQueued("g1")]_vars

\* a flush resends, at time 2, an entry that was queued with the timestamp 1
C29_Witness ==
    LET r == th["g1"] IN
    /\ validatePayload
    /\ r.op = "Flush"
    /\ r.pc = "do"
    /\ r.idx = 1
    /\ r.data = r.snapshot[1]
    /\ r.data.timestamp = 1
    /\ lastLog = 2

\* the flush of goroutine t, begun with a cancelled context on a queue that
\* was not empty, returns in this step: it returns false, every resend has
\* failed with a NetworkError, the queue holds the entries of the snapshot
\* in their order, and the counters have grown by the length of the snapshot
CancelledRound(t) ==
    LET r == th[t]
        r2 == th'[t]
        K == Len(Snapshot(r))
    IN  (r.op = "Flush" /\ InFlush(r) /\ ~InFlush(r2) /\ r.ctx = "cancelled" /\ K > 0) =>
            /\ r2.success = FALSE
            /\ Len(r2.errs) = K
            /\ \A i \in 1..K : r2.errs[i].e = NetworkError("request failed")
            /\ queue' = Snapshot(r)
            /\ totalLogs' = r.base.totalLogs + K
            /\ totalErrors' = r.base.totalErrors + K

\* C30: a Flush called with a cancelled or expired context on a queue of
\* K > 0 entries, no other goroutine using the client, returns false, every
\* resend failing with a NetworkError and being queued again: the queue
\* holds the same K entries in the same order, and totalLogs and
\* totalErrors have each grown by K.
C30_CancelledFlushKeepsQueue ==
    [][CancelledRound("g1")]_vars

\* a Flush with a cancelled context on two different entries has returned
\* false with both queued again and the counters two higher
C30_Witness ==
    LET r == th["g1"] IN
    /\ FlushReturned(r)
    /\ r.ctx = "cancelled"
    /\ r.success = FALSE
    /\ Len(r.errs) = 2
    /\ queue = <<r.errs[1].d, r.errs[2].d>>
    /\ queue[1] # queue[2]
    /\ totalLogs = r.base.totalLogs + 2
    /\ totalErrors = r.base.totalErrors + 2
    /\ r.base.totalLogs = 2

\* ---------------------------------------------------------------------
\* exponentialBackoff.  A time.Duration is an int64 count of nanoseconds in
\* two's complement; it is written here as the set of the positions of its
\* one bits, bit 63 being the sign, so that the arithmetic keeps its width.

\* the width of time.Duration (int64)
DurationBits == 64

\* maxDelay := 30 * time.Second = 30000000000
maxDelay == {10, 11, 13, 15, 16, 17, 21, 26, 27, 28, 29, 30, 31, 33, 34}

\* x << k in 64 bits: the bits shifted beyond bit 63 are lost, and a shift
\* by 64 or more leaves zero
Shl(x, k) == {i + k : i \in x} \cap (0..(DurationBits - 1))

\* x * y in 64 bits for a y that is zero or a power of two, which is all
\* that 1<<uint(attempt) can be
Mul(x, y) == IF y = {} THEN {} ELSE Shl(x, CHOOSE k \in y : TRUE)

\* x < y on int64: a negative number (bit 63 set) is below every other one,
\* and two numbers of one sign compare as their bit patterns do: the highest
\* bit in which they differ is set in y
Less(x, y) ==
    LET sign == DurationBits - 1 IN
    IF (sign \in x) # (sign \in y)
    THEN sign \in x
    ELSE \E i \in y \ x : \A j \in (i + 1)..sign : (j \in x) <=> (j \in y)

\* exponentialBackoff(attempt, baseDelay): baseDelay for attempt <= 0, else
\* baseDelay * 2^attempt computed in int64, replaced by maxDelay when it is
\* greater than maxDelay
exponentialBackoff(attempt, baseDelay) ==
    IF attempt <= 0
    THEN baseDelay
    ELSE LET delay == Mul(baseDelay, Shl({0}, attempt)) IN
         IF Less(maxDelay, delay) THEN maxDelay ELSE delay

\* the highest attempt of a retry loop: beyond the width of int64
MaxAttempt == 66

\* the base delays of the retry loops, all in 0 < baseDelay <= 30s:
\* 1ns, 1ms (1000000), 100ms (100000000), 1s (1000000000) and 30s
BaseDelays ==
    { {0},
      {6, 9, 14, 16, 17, 18, 19},
      {8, 13, 14, 15, 16, 18, 20, 21, 22, 23, 24, 26},
      {9, 11, 14, 15, 17, 19, 20, 23, 24, 25, 27, 28, 29},
      maxDelay }

\* a retry loop starts: the delay of attempt 0 of some base delay
InitBackoff ==
    /\ queue = <<>>
    /\ spare = <<>>
    /\ totalLogs = 0
    /\ totalErrors = 0
    /\ lastLog = 0
    /\ validatePayload = TRUE
    /\ th = [t \in Threads |-> Idle0]
    /\ lostEntry = FALSE
    /\ hist = NoHist
    /\ mu = NoLocks
    /\ timers = <<>>
    /\ loggers = <<>>
    /\ heap = <<>>
    /\ simple = <<>>
    /\ \E b \in BaseDelays :
           backoff = [attempt |-> 0, baseDelay |-> b,
                      delay |-> exponentialBackoff(0, b),
                      prev |-> exponentialBackoff(0, b)]

\* the retry loop computes the delay of its next attempt
BackoffNext ==
    /\ backoff.attempt < MaxAttempt
    /\ backoff' = [backoff EXCEPT
                     !.attempt = @ + 1,
                     !.delay = exponentialBackoff(backoff.attempt + 1, backoff.baseDelay),
                     !.prev = backoff.delay]
    /\ UNCHANGED <<queue, spare, totalLogs, totalErrors, lastLog, validatePayload, th,
                   lostEntry, hist, loggers, heap, simple, mu, timers>>

SpecBackoff == InitBackoff /\ [][BackoffNext]_vars

\* how often entry e is in the sequence q
CountIn(e, q) == Cardinality({i \in 1..Len(q) : q[i] = e})

\* no goroutine is inside a call
Quiescent == \A t \in DOMAIN th : th[t].pc = "idle"

\* C31: as long as no flush has begun while another was running, the resends
\* of the flushes have delivered no entry more often than it was added to
\* the retry queue; and when, besides, no entry was added while a flush was
\* running (no send failed during a flush), then once every call has
\* returned each entry added to the queue either is still in it or was
\* delivered by a resend, exactly once for each time it was added.
C31_SingleFlushSendsOnce ==
    ~hist.overlap =>
        /\ hist.resent \sqsubseteq hist.added
        /\ (~hist.raced /\ Quiescent) =>
               \A e \in BagToSet(hist.added) :
                   CopiesIn(e, hist.added) = CopiesIn(e, hist.resent) + CountIn(e, queue)

\* two flushes have overlapped and an entry that was added to the queue once
\* has been delivered by two resends
C31_Witness ==
    /\ hist.overlap
    /\ \E e \in BagToSet(hist.added) :
           /\ CopiesIn(e, hist.added) = 1
           /\ CopiesIn(e, hist.resent) = 2
    /\ \A t \in Threads : th[t].op = "Flush" /\ Len(th[t].errs) = 1 /\ th[t].errs[1].e = Nil

\* flushes that ran one after the other, no send failing meanwhile, have
\* delivered an entry once, and nothing is left to deliver
C31_WitnessSingle ==
    /\ ~hist.overlap
    /\ ~hist.raced
    /\ Quiescent
    /\ queue = <<>>
    /\ th["g1"].op = "Flush"
    /\ th["g2"].op = "Flush"
    /\ \E e \in BagToSet(hist.added) :
           CopiesIn(e, hist.added) = 1 /\ CopiesIn(e, hist.resent) = 1

\* the call of frame r has a message or a context over the limits
Oversized(r) ==
    \/ r.arg.message > MaxMessageLen
    \/ ~r.arg.context.isNil /\ ContextBytes(r.arg.context.m) > MaxContextLen

\* C32: a call through a logger created with options that set Source (and
\* may leave ValidatePayload unset) with a message of more than 1024 bytes,
\* or with a context that serializes to more than 5000 bytes, returns a
\* ValidationError and sends nothing.
C32_UnsetValidatePayloadValidates ==
    \A t \in DOMAIN th :
        LET r == th[t] IN
        (LoggerReturned(r) /\ loggers[r.lg].source # 0 /\ Oversized(r)) =>
            /\ r.err.type = "ValidationError"
            /\ r.resp = NoResp
            /\ r.eff.nets = 0

\* the error e makes Logger.sendLog add the entry to the retry queue
LoggerRequeues(e) == e.type \in {"NetworkError", "ServerError", "RateLimitError"}

\* a step keeps the waiting entries, or adds the entry of a log call that
\* failed retriably, or removes the entry whose resend was delivered or
\* failed for good
WaitingConserved ==
    \/ Waiting' = Waiting
    \/ \E t \in Threads :
           /\ th[t].op = "Logger.log" /\ th[t].pc = "ladd"
           /\ LoggerRequeues(th[t].err)
           /\ Waiting' = Waiting (+) SetToBag({th[t].data})
    \/ \E t \in Threads :
           /\ th[t].op = "FlushRetryQueue" /\ th[t].pc \in {"lsend", "ldo"}
           /\ Len(th'[t].errs) = Len(th[t].errs) + 1
           /\ ~LoggerRequeues(th'[t].err)
           /\ Waiting = Waiting' (+) SetToBag({Snapshot(th[t])[th[t].idx]})

\* a FlushRetryQueue takes the whole queue and leaves it empty
TakesAll(t) ==
    (th'[t].op = "FlushRetryQueue" /\ th'[t] # th[t] /\ th[t].pc = "idle") =>
        /\ simple'[1].retryQueue = <<>>
        /\ th'[t].pc = "lsend" => Snapshot(th'[t]) = simple[1].retryQueue
        /\ th'[t].pc = "idle" => simple[1].retryQueue = <<>> /\ th'[t].count = 0

\* a resend that failed retriably puts its entry at the end of the queue
RequeueAppends(t) ==
    (th[t].op = "FlushRetryQueue" /\ th[t].pc = "ladd" /\ th'[t] # th[t]) =>
        simple'[1].retryQueue = Append(simple[1].retryQueue, Snapshot(th[t])[th[t].idx])

\* the FlushRetryQueue of goroutine t returns the number of its resends
\* that returned nil
CountReturned(t) ==
    (th[t].op = "FlushRetryQueue" /\ th[t].pc # "idle" /\ th'[t].pc = "idle") =>
        LET r2 == th'[t] IN
        /\ Len(r2.errs) = Len(Snapshot(th[t]))
        /\ r2.count = Cardinality({i \in 1..Len(r2.errs) : r2.errs[i].e = Nil})
        /\ r2.count \in 0..Len(Snapshot(th[t]))

\* C33: under any interleaving of FlushRetryQueue and log calls of two
\* goroutines on one Logger, a flush takes the whole queue and leaves it
\* empty in one step, so every entry that waits for a resend is in the queue
\* or held by exactly one flush: entries join only from a log call that
\* failed retriably and leave only when a resend delivers them or fails for
\* good; a resend that fails retriably puts its entry back at the end of
\* the queue; and a flush returns the number of its resends that succeeded,
\* between 0 and the length of its snapshot.
C33_FlushTakesEachOnce ==
    [][/\ WaitingConserved
       /\ \A t \in Threads : TakesAll(t) /\ RequeueAppends(t) /\ CountReturned(t)]_vars

\* both goroutines are inside a FlushRetryQueue, each holding an entry the
\* other does not hold, while a failed resend has put an entry back
C33_Witness ==
    /\ th["g1"].op = "FlushRetryQueue" /\ th["g1"].pc = "ldo"
    /\ th["g2"].op = "FlushRetryQueue" /\ th["g2"].pc = "lsend"
    /\ Len(th["g1"].snapshot) = 2
    /\ th["g1"].idx = 2
    /\ th["g1"].count = 0
    /\ th["g2"].snapshot = <<th["g1"].snapshot[1]>>
    /\ simple[1].retryQueue = <<>>

\* the rate num/den lies between 0 and 100
RateInRange(rate) == rate.den > 0 /\ 0 <= rate.num /\ rate.num <= 100 * rate.den

\* C34: in every reachable state, whatever the interleaving of the Log,
\* Flush and GetStats calls of the goroutines, 0 <= totalErrors <= totalLogs,
\* so the error rate derived from the counters, and every rate GetStats has
\* computed, lies between 0 and 100; and no step decreases a counter.
C34_ErrorsWithinLogs ==
    /\ [](/\ 0 <= totalErrors
          /\ totalErrors <= totalLogs
          /\ RateInRange(ErrorRate(totalErrors, totalLogs))
          /\ \A t \in Threads : RateInRange(th[t].stats.errorRate))
    /\ [][totalLogs' >= totalLogs /\ totalErrors' >= totalErrors]_vars

\* every send so far has failed, one of them a resend of a flush, and
\* GetStats has returned the rate 100
C34_Witness ==
    \E t, u \in Threads :
        /\ th[t].op = "GetStats" /\ th[t].pc = "idle"
        /\ th[t].stats.errorRate = [num |-> 200, den |-> 2]
        /\ th[u].op = "Flush"
        /\ Len(th[u].errs) = 1
        /\ totalLogs = 2 /\ totalErrors = 2

\* the steps by which goroutine t goes on with the call it is in on the
\* client
Continue(t) ==
    \/ SendDo(t, LockU)
    \/ SendIncErr(t)
    \/ SendAdd(t)
    \/ FlushClear(t)
    \/ FlushResend(t, LockU)
    \/ GetStatsRate(t)
    \/ GetStatsReturn(t)
    \/ SizeReturn(t)
    \/ ReadDo(t, LockU)

\* the locks goroutine t may hold where its call stands: the read lock of
\* the statistics inside GetStats, that of the queue inside Size
MayHold(t) ==
    IF th[t].op = "GetStats" /\ th[t].pc \in {"rate", "stats"} THEN {"stats"}
    ELSE IF th[t].op = "Size" /\ th[t].pc = "size" THEN {"rq"}
    ELSE {}

\* C35: on the client no goroutine holds retryQueue.mutex and
\* statsManager.mutex together; a lock is held only inside the queue or
\* counter operation that took it, never by a goroutine that has returned
\* from its call; a goroutine that holds a lock can always take its next
\* step; and so whenever a goroutine inside Log, flush, ClearRetryQueue,
\* Size or GetStats cannot step, it waits for a lock whose holder can step
\* (or the behaviour has used up the sends the model allows): no deadlock.
C35_NoDeadlock ==
    simple = <<>> =>
        \A t \in Threads :
            /\ HeldBy(t) # {"rq", "stats"}
            /\ HeldBy(t) = MayHold(t)
            /\ HeldBy(t) # {} => ENABLED Continue(t)
            /\ (th[t].pc # "idle" /\ ~ENABLED Continue(t)) =>
                   \/ th[t].pc = "send" /\ totalLogs >= LockU.maxLogs
                   \/ \E u \in Threads \ {t} : HeldBy(u) # {} /\ ENABLED Continue(u)
            /\ (th[t].pc = "idle" /\ ~ENABLED ClearRetryQueue(t)) =>
                   \E u \in Threads \ {t} : "rq" \in HeldBy(u) /\ ENABLED Continue(u)

\* one goroutine holds the read lock of the queue inside Size, the other
\* waits for the queue's lock to add a failed entry, a ClearRetryQueue
\* having run before
C35_Witness ==
    \E t, u \in Threads :
        /\ HeldBy(t) = {"rq"}
        /\ th[u].pc = "add"
        /\ ~ENABLED Continue(u)
        /\ ENABLED Continue(t)
        /\ totalErrors = 2
        /\ queue = <<>>

\* goroutine t calls End on a timer in this step
EndBegins(t) ==
    th[t].pc = "idle" /\ th'[t] # th[t] /\ th'[t].op \in {"endTimer", "Timer.End"}

\* an End leaves the timer as it is, and the Info it calls has one more
\* entry built and handed to sendLog unless the logger filters it out,
\* whatever End was called on the timer before
EndEmitsAgain(t) ==
    EndBegins(t) =>
        LET r2 == th'[t] IN
        /\ timers' = timers
        /\ r2.count >= 0
        /\ ~TimerFiltered(r2) =>
               /\ r2.data.timestamp # 0
               /\ r2.data.message = r2.arg.message
               /\ r2.eff.logs = 1 <=> (r2.op = "endTimer" /\ r2.pc = "do")
               /\ r2.eff.logs = 1 => totalLogs' = totalLogs + 1
               /\ (r2.op = "endTimer" /\ r2.pc = "idle") => r2.err.type = "ValidationError"

\* the End of frame r has returned the duration; if its entry failed
\* retriably the entry is the last of the retry queue and the failure is
\* counted
EndQueuedOnFailure(r) ==
    /\ EndCalledInfo(r)
    /\ (r.op = "endTimer" /\ Requeued(r)) =>
           /\ r.err.type \in {"NetworkError", "APIError"}
           /\ r.eff = [logs |-> 1, errs |-> 1, adds |-> 1, nets |-> 1]
           /\ queue = Append(r.pre.queue, r.data)
           /\ totalLogs = r.pre.totalLogs + 1
           /\ totalErrors = r.pre.totalErrors + 1
    /\ (r.op = "Timer.End" /\ LoggerRequeues(r.err)) =>
           /\ r.eff.adds = 1
           /\ simple[r.lg].retryQueue = Append(r.pre.queue, r.data)

\* C36: End has no failure to report and does not end the timer: whether
\* the entry was delivered, failed or was filtered out, End returns the
\* elapsed duration; an entry that failed retriably is added to the retry
\* queue and, on the client, counted in totalLogs and totalErrors; and a
\* further End on the same timer leaves the timer usable and has one more
\* entry emitted through the logger (none when the logger filters it out).
C36_EndRepeatable ==
    /\ [](\A t \in DOMAIN th : EndReturned(th[t]) => EndQueuedOnFailure(th[t]))
    /\ [][EndEmitsAgain("g1")]_vars

\* the second End of a timer: the first was delivered, this one was
\* answered 500, is queued and counted
C36_Witness ==
    LET r == th["g1"] IN
    /\ EndReturned(r) /\ r.op = "endTimer"
    /\ Len(timers) = 1
    /\ totalLogs = 2 /\ totalErrors = 1
    /\ r.resp = [kind |-> "response", status |-> 500]
    /\ queue = <<r.data>>

\* the End of a timer of a Logger of CheckLogs.go was answered 500 and its
\* entry is in the Logger's retry queue
C36_WitnessLogger ==
    LET r == th["g1"] IN
    /\ EndReturned(r) /\ r.op = "Timer.End"
    /\ r.resp = [kind |-> "response", status |-> 500]
    /\ r.eff.adds = 1
    /\ simple[r.lg].retryQueue = <<r.data>>

\* C37: a log call on a Logger of CheckLogs.go that has no API key, silent
\* or not, issues no HTTP request and leaves the retry queue as it was; it
\* returns a ValidationError when the entry is invalid and a
\* ConfigurationError otherwise.
C37_NoKeyNoRequest ==
    \A t \in DOMAIN th :
        LET r == th[t] IN
        (r.op = "Logger.log" /\ r.pc = "idle" /\ r.lg # 0 /\ ~simple[r.lg].apiKey) =>
            /\ r.resp = NoResp
            /\ r.eff.nets = 0
            /\ r.eff.adds = 0
            /\ simple[r.lg].retryQueue = r.pre.queue
            /\ r.err.type = IF LoggerValidate(r.data) # Nil THEN "ValidationError"
                            ELSE "ConfigurationError"

\* a valid entry on a silent Logger without an API key was answered with a
\* ConfigurationError
C37_Witness ==
    LET r == th["g1"] IN
    /\ r.op = "Logger.log" /\ r.pc = "idle" /\ r.lg # 0
    /\ ~simple[r.lg].apiKey
    /\ simple[r.lg].silent
    /\ r.data.message = 1
    /\ r.err = CheckLogsError("ConfigurationError", "API key is required", 0)

\* an entry without a message on a Logger without an API key was answered
\* with a ValidationError
C37_WitnessInvalid ==
    LET r == th["g1"] IN
    /\ r.op = "Logger.log" /\ r.pc = "idle" /\ r.lg # 0
    /\ ~simple[r.lg].apiKey
    /\ r.data.message = 0
    /\ r.err.type = "ValidationError"

\* C38: exponentialBackoff is bounded and monotone: for every base delay
\* with 0 < baseDelay <= 30s and every attempt >= 0, attempts at which
\* 1<<attempt or the product overflows int64 included, the result is at least
\* baseDelay, at most 30 seconds, and not smaller than the result for the
\* attempt before.
C38_BackoffBoundedMonotone ==
    backoff.baseDelay # {} =>
        /\ ~Less(backoff.delay, backoff.baseDelay)
        /\ ~Less(maxDelay, backoff.delay)
        /\ ~Less(backoff.delay, backoff.prev)

====
